---- MODULE Spec2Model ----
(***************************************************************************)
(* Per-guild concurrency coordinator of renoir-bot: the guild queue        *)
(* (domain/queue.rs, services/queue_service.rs), the inactivity monitor    *)
(* (infrastructure/inactivity.rs), voice-connection establishment and bulk *)
(* enqueue (commands/play.rs) and guild cleanup (services/cleanup.rs).     *)
(***************************************************************************)
EXTENDS Integers, Sequences, FiniteSets, TLC

\* ------------------------------------------------------------------ bounds
MaxPush == 3
MaxPlays == 3
MaxStops == 2
MaxDisc == 2
MaxMonitors == 3
MaxPolls == 61
MaxLockers == 3

\* ------------------------------------------------------------- value sets
None == "None"
Guilds == {1, 2}
Tracks == {"A", "B", "C", "D"}
NoOp == [op |-> "none", guild |-> 0, ret |-> None]

VARIABLES
    guild_queues,          \* GuildQueues: HashMap<GuildId, MusicQueue>
    lastOp,                \* the last QueueService call and what it returned
    pushed,                \* per guild: tracks pushed since the queue was last cleared
    taken,                 \* per guild: how many of them advance has popped
    inactivity_handles,    \* InactivityHandles: guild -> the monitor its Notify belongs to
    enqueue_cancels,       \* EnqueueCancels: guild -> sequence of cancellation flags
    enqueue_locks,         \* EnqueueLocks: guild -> holder of the bulk-enqueue mutex
    join_locks,            \* JoinLocks: guild -> holder of the join mutex
    now_playing_messages,  \* NowPlayingMessages: guild -> message id
    cancel_flag,           \* the AtomicBool of each bulk task
    calls,                 \* songbird manager: guild -> its Call (connection, track queue)
    members,               \* cache: members in the guild's voice channel (the bot included)
    play,                  \* the /play requests
    task,                  \* the background bulk-enqueue tasks
    stop,                  \* the /stop requests
    disc,                  \* runs of the DisconnectCleanup event handler
    mon,                   \* the inactivity-monitor tasks
    joinCalls,             \* per guild: how often manager.join was invoked
    cancelLog,             \* per task: what it had appended when its flag was set
    guards,                \* write guards on the mutex maps that are alive: who, which map
    lockers,               \* handlers seen as programs of lock operations: kind, guild, position
    notif                  \* per guild: the run of NowPlayingNotifier::act, the messages sent and stored

queueGhost == <<lastOp, pushed, taken>>
registry == <<inactivity_handles, enqueue_cancels, enqueue_locks, join_locks,
              now_playing_messages>>
procs == <<play, task, stop, disc, mon>>
vars == <<guild_queues, lastOp, pushed, taken, inactivity_handles, enqueue_cancels,
          enqueue_locks, join_locks, now_playing_messages, cancel_flag, calls,
          members, play, task, stop, disc, mon, joinCalls, cancelLog, guards,
          lockers, notif>>

\* ------------------------------------------------------- HashMap helpers
MapPut(m, k, v) == [x \in (DOMAIN m) \cup {k} |-> IF x = k THEN v ELSE m[x]]
MapRemove_all_mut(m, k) == [x \in {} |-> m[x]]
MapRemove(m, k) == [x \in (DOMAIN m) \ {k} |-> m[x]]
EmptyMap == [x \in {} |-> None]

\* ------------------------------------------------- MusicQueue (queue.rs)
DefaultQueue == [current |-> None, tracks |-> <<>>]

push_sets_current_mut(q, track) ==
    IF q.current = None THEN [q EXCEPT !.current = track]
    ELSE [q EXCEPT !.tracks = Append(@, track)]
push_front_mut(q, track) == [q EXCEPT !.tracks = <<track>> \o @]
push(q, track) == [q EXCEPT !.tracks = Append(@, track)]

advance_keep_mut(q) ==
    IF q.tracks = <<>> THEN q
    ELSE [current |-> Head(q.tracks), tracks |-> Tail(q.tracks)]
advance(q) ==
    IF q.tracks = <<>> THEN [q EXCEPT !.current = None]
    ELSE [current |-> Head(q.tracks), tracks |-> Tail(q.tracks)]

current(q) == q.current

take_current_mut(q) == [q EXCEPT !.current = q.current]
take_current(q) == [q EXCEPT !.current = None]

clear_current_only_mut(q) == [q EXCEPT !.current = None]
clear(q) == [current |-> None, tracks |-> <<>>]

list(q) == q.tracks

\* ------------------------------------- QueueService (queue_service.rs)
\* Every call takes the RwLock over the whole map, so it is one step.
add_track(map, guild_id, track) ==
    MapPut(map, guild_id,
           push(IF guild_id \in DOMAIN map THEN map[guild_id] ELSE DefaultQueue,
                track))

QueueService_advance(map, guild_id) ==
    IF guild_id \in DOMAIN map
    THEN [map EXCEPT ![guild_id] = advance(@)]
    ELSE map
QueueService_advance_ret(map, guild_id) ==
    IF guild_id \in DOMAIN map
    THEN current(advance(map[guild_id]))
    ELSE None

QueueService_current(map, guild_id) ==
    IF guild_id \in DOMAIN map THEN current(map[guild_id]) ELSE None

QueueService_skip(map, guild_id) ==
    IF guild_id \in DOMAIN map
    THEN [map EXCEPT ![guild_id] = take_current(@)]
    ELSE map
QueueService_skip_ret(map, guild_id) ==
    IF guild_id \in DOMAIN map THEN current(map[guild_id]) ELSE None

QueueService_clear(map, guild_id) ==
    IF guild_id \in DOMAIN map
    THEN [map EXCEPT ![guild_id] = clear(@)]
    ELSE map

QueueService_list(map, guild_id) ==
    IF guild_id \in DOMAIN map THEN list(map[guild_id]) ELSE <<>>

\* ------------------------------------------------------------ processes
PlayIds == 1..MaxPlays
StopIds == 1..MaxStops
DiscIds == 1..MaxDisc
MonIds == 1..MaxMonitors

Range(seq) == {seq[i] : i \in 1..Len(seq)}
Min(S) == CHOOSE x \in S : \A y \in S : x <= y

PlayOff == [guild |-> 0, kind |-> "single", coll |-> <<>>, pc |-> "off",
            handler |-> <<>>, err |-> None, noConn |-> FALSE]
TaskOff == [guild |-> 0, tracks |-> <<>>, pc |-> "off", i |-> 1, outcome |-> None]
StopOff == [guild |-> 0, pc |-> "off"]
DiscIdle == [guild |-> 0, pc |-> "idle"]
MonUnborn == [guild |-> 0, pc |-> "unborn", idle_elapsed |-> 0, permit |-> FALSE,
              raced |-> FALSE, polls |-> 0, idleRun |-> 0, lastActive |-> 0]

NewPlay(g, kind, coll) == [PlayOff EXCEPT !.guild = g, !.kind = kind, !.coll = coll,
                                          !.pc = "start"]
NewStop(g) == [guild |-> g, pc |-> "c1"]

NotifIdle == [pc |-> "idle", track |-> None, seen |-> {}, sent |-> {}, inserted |-> {},
              old |-> {}]
NoNotif == [g \in Guilds |-> NotifIdle]
LockerIds == 1..MaxLockers
NoLockers == [h \in LockerIds |-> [kind |-> "none", guild |-> 0, pc |-> 1, held |-> {}]]

\* ------------------------------------------ songbird manager (call sites)
NoCall == [connected |-> FALSE, gen |-> 0, queue |-> <<>>, hooked |-> FALSE]
CallOf(g) == IF g \in DOMAIN calls THEN calls[g] ELSE NoCall
Connected(g) == g \in DOMAIN calls /\ calls[g].connected

\* handler.queue().stop(): empties the Call's track queue
QueueStopped(g) ==
    IF g \in DOMAIN calls THEN [calls EXCEPT ![g].queue = <<>>] ELSE calls

\* manager.leave(guild_id): the Call stays registered, its connection is dropped
Left(g) ==
    IF g \in DOMAIN calls THEN [calls EXCEPT ![g].connected = FALSE] ELSE calls

\* handler.enqueue_input(input): the track joins the Call's ordered track queue
Enqueued_front_mut(g, track) ==
    MapPut(calls, g, [CallOf(g) EXCEPT !.queue = <<track>> \o @])
Enqueued(g, track) ==
    MapPut(calls, g, [CallOf(g) EXCEPT !.queue = Append(@, track)])

\* A dropped connection fires DriverDisconnect on a Call that has the
\* DisconnectCleanup handler registered: one run of cleanup_guild starts.
FiresDisconnect(g) == Connected(g) /\ calls[g].hooked
FreeDisc == {d \in DiscIds : disc[d].pc = "idle"}
DiscAfterDrop(g) ==
    IF FiresDisconnect(g)
    THEN [disc EXCEPT ![Min(FreeDisc)] = [guild |-> g, pc |-> "c1"]]
    ELSE disc
CanDrop(g) == FiresDisconnect(g) => FreeDisc # {}

\* ------------------------------------------------ cleanup_guild (cleanup.rs)
NextCleanupPc_clear_last_mut(pc, after) ==
    CASE pc = "c1" -> "c3"
      [] pc = "c3" -> "c4"
      [] pc = "c4" -> "c2"
      [] pc = "c2" -> after
NextCleanupPc(pc, after) ==
    CASE pc = "c1" -> "c2"
      [] pc = "c2" -> "c3"
      [] pc = "c3" -> "c4"
      [] pc = "c4" -> after
      [] pc = "c4io" -> after

\* Step 4 has the write guard of the "Now Playing" map as a temporary of its
\* if-let: when an entry was removed, the guard lives on through
\* delete_message(..).await (position c4io) and drops when that returns.
CleanupExit(g, pc, after) ==
    IF pc = "c4" /\ g \in DOMAIN now_playing_messages THEN "c4io" ELSE after
DeleteInFlight ==
    \/ \E s \in StopIds : stop[s].pc = "c4io"
    \/ \E d \in DiscIds : disc[d].pc = "c4io"
    \/ \E m \in MonIds : mon[m].pc = "c4io"
    \/ \E g \in Guilds : notif[g].pc = "deleting"

FlagsOf(g) == IF g \in DOMAIN enqueue_cancels THEN Range(enqueue_cancels[g]) ELSE {}

\* What a task has appended and whether an item is in progress, recorded for
\* the tasks whose flag this step sets.
LogCancel(g) ==
    [t \in PlayIds |->
        IF t \in FlagsOf(g) /\ ~cancel_flag[t]
        THEN <<[at |-> task[t].i - 1, mid |-> task[t].pc \in {"submit", "append"}]>>
        ELSE cancelLog[t]]

CancelEnqueues_detach_mut(g) ==
    /\ enqueue_cancels' = MapRemove(enqueue_cancels, g)
    /\ cancel_flag' = cancel_flag
    /\ cancelLog' = cancelLog

\* Step 1: detach the guild's flag list and set every flag in it.
CancelEnqueues(g) ==
    /\ enqueue_cancels' = MapRemove(enqueue_cancels, g)
    /\ cancel_flag' = [t \in PlayIds |-> cancel_flag[t] \/ t \in FlagsOf(g)]
    /\ cancelLog' = LogCancel(g)

\* Step 3: deregister the monitor's Notify and notify_one it.
NotifiedMon(g, monBase) ==
    IF g \in DOMAIN inactivity_handles
    THEN [monBase EXCEPT ![inactivity_handles[g]].permit = TRUE]
    ELSE monBase

\* One step (pc c1..c4) of cleanup_guild for guild g. monBase is mon, with the
\* caller's own position already advanced when the caller is a monitor.
cleanup_guild(g, pc, monBase) ==
    CASE pc = "c1" ->
            /\ CancelEnqueues(g)
            /\ mon' = monBase
            /\ UNCHANGED <<guild_queues, inactivity_handles, now_playing_messages>>
      [] pc = "c2" ->
            /\ guild_queues' = QueueService_clear(guild_queues, g)
            /\ mon' = monBase
            /\ UNCHANGED <<enqueue_cancels, cancel_flag, cancelLog, inactivity_handles,
                           now_playing_messages>>
      [] pc = "c3" ->
            /\ inactivity_handles' = MapRemove(inactivity_handles, g)
            /\ mon' = NotifiedMon(g, monBase)
            /\ UNCHANGED <<enqueue_cancels, cancel_flag, cancelLog, guild_queues,
                           now_playing_messages>>
      [] pc = "c4" ->
            /\ ~DeleteInFlight
            /\ now_playing_messages' = MapRemove(now_playing_messages, g)
            /\ mon' = monBase
            /\ UNCHANGED <<enqueue_cancels, cancel_flag, cancelLog, guild_queues,
                           inactivity_handles>>
      [] pc = "c4io" ->
            /\ mon' = monBase
            /\ UNCHANGED <<enqueue_cancels, cancel_flag, cancelLog, guild_queues,
                           inactivity_handles, now_playing_messages>>

CleanupPcs == {"c1", "c2", "c3", "c4", "c4io"}

\* ------------------------------------------- /play (commands/play.rs)
Unlocked_global_mut(locks, g) == \A h \in DOMAIN locks : locks[h] = <<>>
Unlocked_mut(locks, g) == TRUE
Unlocked(locks, g) == IF g \in DOMAIN locks THEN locks[g] = <<>> ELSE TRUE
HasSession_never_mut(g) == FALSE
HasSession(g) == g \in DOMAIN inactivity_handles /\ g \in DOMAIN calls

\* ensure_voice_connection, fast path
PlayFast(p) ==
    LET g == play[p].guild IN
    /\ play[p].pc = "start"
    /\ play' = [play EXCEPT ![p].pc = IF HasSession(g) THEN "have" ELSE "stale",
                            ![p].handler = IF HasSession(g) THEN <<calls[g].gen>> ELSE <<>>,
                            ![p].noConn = ~Connected(g)]
    /\ UNCHANGED <<notif, lockers, guards, guild_queues, queueGhost, registry, cancel_flag, calls, members,
                   task, stop, disc, mon, joinCalls, cancelLog>>

\* ensure_voice_connection: let _ = manager.leave(guild_id).await
PlayLeaveStale(p) ==
    LET g == play[p].guild IN
    /\ play[p].pc = "stale"
    /\ CanDrop(g)
    /\ calls' = Left(g)
    /\ disc' = DiscAfterDrop(g)
    /\ play' = [play EXCEPT ![p].pc = "lockmap"]
    /\ UNCHANGED <<notif, lockers, guards, guild_queues, queueGhost, registry, cancel_flag, members,
                   task, stop, mon, joinCalls, cancelLog>>

\* ensure_voice_connection: join_locks.write().await, the map's write guard
GuardFree(map) == \A h \in guards : h.map # map
PlayLockMap(p) ==
    /\ play[p].pc = "lockmap"
    /\ GuardFree("join_locks")
    /\ guards' = guards \cup {[by |-> p, map |-> "join_locks"]}
    /\ play' = [play EXCEPT ![p].pc = "lockentry"]
    /\ UNCHANGED <<notif, lockers, guild_queues, queueGhost, registry, cancel_flag, calls, members,
                   task, stop, disc, mon, joinCalls, cancelLog>>

\* ensure_voice_connection: entry(guild_id).or_insert_with(..).clone(); the
\* guard drops at the end of the block
PlayLockEntry_keep_mut(p) ==
    LET g == play[p].guild IN
    /\ play[p].pc = "lockentry"
    /\ join_locks' = IF g \in DOMAIN join_locks THEN join_locks
                      ELSE MapPut(join_locks, g, <<>>)
    /\ guards' = guards
    /\ play' = [play EXCEPT ![p].pc = "lock"]
    /\ UNCHANGED <<notif, lockers, guild_queues, queueGhost, inactivity_handles, enqueue_cancels,
                   enqueue_locks, now_playing_messages, cancel_flag, calls, members,
                   task, stop, disc, mon, joinCalls, cancelLog>>

PlayLockEntry(p) ==
    LET g == play[p].guild IN
    /\ play[p].pc = "lockentry"
    /\ join_locks' = IF g \in DOMAIN join_locks THEN join_locks
                      ELSE MapPut(join_locks, g, <<>>)
    /\ guards' = guards \ {[by |-> p, map |-> "join_locks"]}
    /\ play' = [play EXCEPT ![p].pc = "lock"]
    /\ UNCHANGED <<notif, lockers, guild_queues, queueGhost, inactivity_handles, enqueue_cancels,
                   enqueue_locks, now_playing_messages, cancel_flag, calls, members,
                   task, stop, disc, mon, joinCalls, cancelLog>>

\* ensure_voice_connection: lock.lock().await on the guild's join mutex
PlayLock(p) ==
    LET g == play[p].guild IN
    /\ play[p].pc = "lock"
    /\ Unlocked(join_locks, g)
    /\ join_locks' = MapPut(join_locks, g, <<p>>)
    /\ play' = [play EXCEPT ![p].pc = "recheck"]
    /\ UNCHANGED <<notif, lockers, guards, guild_queues, queueGhost, inactivity_handles, enqueue_cancels,
                   enqueue_locks, now_playing_messages, cancel_flag, calls, members,
                   task, stop, disc, mon, joinCalls, cancelLog>>

\* ensure_voice_connection: the double check under the join mutex
PlayRecheck(p) ==
    LET g == play[p].guild IN
    /\ play[p].pc = "recheck"
    /\ IF HasSession(g)
       THEN /\ play' = [play EXCEPT ![p].pc = "have", ![p].handler = <<calls[g].gen>>]
            /\ join_locks' = [join_locks EXCEPT ![g] = <<>>]
       ELSE /\ play' = [play EXCEPT ![p].pc = "join"]
            /\ UNCHANGED join_locks
    /\ UNCHANGED <<notif, lockers, guards, guild_queues, queueGhost, inactivity_handles, enqueue_cancels,
                   enqueue_locks, now_playing_messages, cancel_flag, calls, members,
                   task, stop, disc, mon, joinCalls, cancelLog>>

\* ensure_voice_connection: manager.join(guild_id, voice_channel_id) is invoked
PlayJoinStart(p) ==
    LET g == play[p].guild IN
    /\ play[p].pc = "join"
    /\ joinCalls' = [joinCalls EXCEPT ![g] = @ + 1]
    /\ play' = [play EXCEPT ![p].pc = "joining"]
    /\ UNCHANGED <<notif, lockers, guards, guild_queues, queueGhost, registry, cancel_flag, calls, members,
                   task, stop, disc, mon, cancelLog>>

PlayJoinEnd_keep_mut(p, ok) ==
    LET g == play[p].guild IN
    /\ play[p].pc = "joining"
    /\ calls' = MapPut(calls, g, [CallOf(g) EXCEPT !.connected = ok,
                                                 !.gen = IF ok THEN @ + 1 ELSE @])
    /\ join_locks' = IF ok THEN [join_locks EXCEPT ![g] = <<>>] ELSE join_locks
    /\ play' = IF ok
               THEN [play EXCEPT ![p].pc = "have", ![p].handler = <<CallOf(g).gen + 1>>]
               ELSE [play EXCEPT ![p].pc = "done", ![p].err = "JoinError"]
    /\ UNCHANGED <<notif, lockers, guards, guild_queues, queueGhost, inactivity_handles, enqueue_cancels,
                   enqueue_locks, now_playing_messages, cancel_flag, members,
                   task, stop, disc, mon, joinCalls, cancelLog>>

\* ensure_voice_connection: the join returns; the guard drops on either path
PlayJoinEnd(p, ok) ==
    LET g == play[p].guild IN
    /\ play[p].pc = "joining"
    /\ calls' = MapPut(calls, g, [CallOf(g) EXCEPT !.connected = ok,
                                                 !.gen = IF ok THEN @ + 1 ELSE @])
    /\ join_locks' = [join_locks EXCEPT ![g] = <<>>]
    /\ play' = IF ok
               THEN [play EXCEPT ![p].pc = "have", ![p].handler = <<CallOf(g).gen + 1>>]
               ELSE [play EXCEPT ![p].pc = "done", ![p].err = "JoinError"]
    /\ UNCHANGED <<notif, lockers, guards, guild_queues, queueGhost, inactivity_handles, enqueue_cancels,
                   enqueue_locks, now_playing_messages, cancel_flag, members,
                   task, stop, disc, mon, joinCalls, cancelLog>>

\* play: the metadata lookup joined with the connection; nothing found ends
\* the command with NoResults before setup_fresh_join
PlayResolve(p, found) ==
    /\ play[p].pc = "have"
    /\ play' = IF found
               THEN [play EXCEPT ![p].pc = "setup"]
               ELSE [play EXCEPT ![p].pc = "done", ![p].err = "NoResults"]
    /\ UNCHANGED <<notif, lockers, guards, guild_queues, queueGhost, registry, cancel_flag, calls, members,
                   task, stop, disc, mon, joinCalls, cancelLog>>

\* spawn_inactivity_monitor: a new task, idle_elapsed = 0, its own Notify
FreeMon == {m \in MonIds : mon[m].pc = "unborn"}
spawn_inactivity_monitor(g) == [MonUnborn EXCEPT !.guild = g, !.pc = "select"]

\* setup_fresh_join: under the handle map's write lock, only when no handle is
\* registered: stop the track queue, register DisconnectCleanup, spawn and
\* register the monitor
setup_fresh_join_always(g) == TRUE
setup_fresh_join_needed(g) == g \notin DOMAIN inactivity_handles

PlaySetup(p) ==
    LET g == play[p].guild IN
    /\ play[p].pc = "setup"
    /\ IF setup_fresh_join_needed(g)
       THEN /\ FreeMon # {}
            /\ calls' = [calls EXCEPT ![g].queue = <<>>, ![g].hooked = TRUE]
            /\ mon' = [mon EXCEPT ![Min(FreeMon)] = spawn_inactivity_monitor(g)]
            /\ inactivity_handles' = MapPut(inactivity_handles, g, Min(FreeMon))
       ELSE UNCHANGED <<calls, mon, inactivity_handles>>
    /\ play' = [play EXCEPT ![p].pc = IF play[p].kind = "single" THEN "submit"
                                                                 ELSE "spawn"]
    /\ UNCHANGED <<notif, lockers, guards, guild_queues, queueGhost, enqueue_cancels, enqueue_locks, join_locks,
                   now_playing_messages, cancel_flag, members, task, stop, disc,
                   joinCalls, cancelLog>>

\* enqueue_track, first half: handler.enqueue_input(input)
PlaySubmit_mutex_mut(p) ==
    LET g == play[p].guild IN
    /\ play[p].pc = "submit"
    /\ IF g \in DOMAIN enqueue_locks THEN enqueue_locks[g] = <<>> ELSE TRUE
    /\ calls' = Enqueued(g, play[p].coll[1])
    /\ play' = [play EXCEPT ![p].pc = "append"]
    /\ UNCHANGED <<notif, lockers, guards, guild_queues, queueGhost, registry, cancel_flag, members,
                   task, stop, disc, mon, joinCalls, cancelLog>>

PlaySubmit(p) ==
    LET g == play[p].guild IN
    /\ play[p].pc = "submit"
    /\ calls' = Enqueued(g, play[p].coll[1])
    /\ play' = [play EXCEPT ![p].pc = "append"]
    /\ UNCHANGED <<notif, lockers, guards, guild_queues, queueGhost, registry, cancel_flag, members,
                   task, stop, disc, mon, joinCalls, cancelLog>>

\* enqueue_track, second half: QueueService::add_track
PlayAppend(p) ==
    LET g == play[p].guild IN
    /\ play[p].pc = "append"
    /\ guild_queues' = add_track(guild_queues, g, play[p].coll[1])
    /\ play' = [play EXCEPT ![p].pc = "done"]
    /\ UNCHANGED <<notif, lockers, guards, queueGhost, registry, cancel_flag, calls, members,
                   task, stop, disc, mon, joinCalls, cancelLog>>

PlaySpawn_noflag_mut(p) ==
    LET g == play[p].guild IN
    /\ play[p].pc = "spawn"
    /\ enqueue_locks' = IF g \in DOMAIN enqueue_locks THEN enqueue_locks
                        ELSE MapPut(enqueue_locks, g, <<>>)
    /\ cancel_flag' = [cancel_flag EXCEPT ![p] = FALSE]
    /\ enqueue_cancels' = enqueue_cancels
    /\ task' = [task EXCEPT ![p] = [TaskOff EXCEPT !.guild = g, !.tracks = play[p].coll,
                                                   !.pc = "wait"]]
    /\ play' = [play EXCEPT ![p].pc = "done"]
    /\ UNCHANGED <<notif, lockers, guards, guild_queues, queueGhost, inactivity_handles, join_locks,
                   now_playing_messages, calls, members, stop, disc, mon, joinCalls,
                   cancelLog>>

\* spawn_background_enqueue: get or create the bulk mutex, register a fresh
\* flag, spawn enqueue_collection_tracks; the command then returns
PlaySpawn(p) ==
    LET g == play[p].guild IN
    /\ play[p].pc = "spawn"
    /\ enqueue_locks' = IF g \in DOMAIN enqueue_locks THEN enqueue_locks
                        ELSE MapPut(enqueue_locks, g, <<>>)
    /\ cancel_flag' = [cancel_flag EXCEPT ![p] = FALSE]
    /\ enqueue_cancels' = MapPut(enqueue_cancels, g,
            Append(IF g \in DOMAIN enqueue_cancels THEN enqueue_cancels[g] ELSE <<>>, p))
    /\ task' = [task EXCEPT ![p] = [TaskOff EXCEPT !.guild = g, !.tracks = play[p].coll,
                                                   !.pc = "wait"]]
    /\ play' = [play EXCEPT ![p].pc = "done"]
    /\ UNCHANGED <<notif, lockers, guards, guild_queues, queueGhost, inactivity_handles, join_locks,
                   now_playing_messages, calls, members, stop, disc, mon, joinCalls,
                   cancelLog>>

\* --------------------------- enqueue_collection_tracks (commands/play.rs)
\* enqueue_mutex.lock_owned().await
MutexFree_mut(locks, g) == TRUE
MutexFree(locks, g) == locks[g] = <<>>

TaskLock(t) ==
    LET g == task[t].guild IN
    /\ task[t].pc = "wait"
    /\ MutexFree(enqueue_locks, g)
    /\ enqueue_locks' = [enqueue_locks EXCEPT ![g] = <<t>>]
    /\ task' = [task EXCEPT ![t].pc = "check"]
    /\ UNCHANGED <<notif, lockers, guards, guild_queues, queueGhost, inactivity_handles, enqueue_cancels,
                   join_locks, now_playing_messages, cancel_flag, calls, members,
                   play, stop, disc, mon, joinCalls, cancelLog>>

\* The loop head: stop at the end of the list, or when the flag is set
FlagObserved_skipfirst_mut(t) == cancel_flag[t] /\ task[t].i > 1
FlagObserved_mut(t) == cancel_flag[t] /\ task[t].i = 1
FlagObserved(t) == cancel_flag[t]

TaskCheck_hold_mut(t) ==
    LET g == task[t].guild IN
    /\ task[t].pc = "check"
    /\ IF task[t].i > Len(task[t].tracks)
       THEN /\ task' = [task EXCEPT ![t].pc = "done", ![t].outcome = "complete"]
            /\ enqueue_locks' = [enqueue_locks EXCEPT ![g] = <<>>]
       ELSE IF FlagObserved(t)
       THEN /\ task' = [task EXCEPT ![t].pc = "done", ![t].outcome = "cancelled"]
            /\ UNCHANGED enqueue_locks
       ELSE /\ task' = [task EXCEPT ![t].pc = "submit"]
            /\ UNCHANGED enqueue_locks
    /\ UNCHANGED <<notif, lockers, guards, guild_queues, queueGhost, inactivity_handles, enqueue_cancels,
                   join_locks, now_playing_messages, cancel_flag, calls, members,
                   play, stop, disc, mon, joinCalls, cancelLog>>

TaskCheck(t) ==
    LET g == task[t].guild IN
    /\ task[t].pc = "check"
    /\ IF task[t].i > Len(task[t].tracks)
       THEN /\ task' = [task EXCEPT ![t].pc = "done", ![t].outcome = "complete"]
            /\ enqueue_locks' = [enqueue_locks EXCEPT ![g] = <<>>]
       ELSE IF FlagObserved(t)
       THEN /\ task' = [task EXCEPT ![t].pc = "done", ![t].outcome = "cancelled"]
            /\ enqueue_locks' = [enqueue_locks EXCEPT ![g] = <<>>]
       ELSE /\ task' = [task EXCEPT ![t].pc = "submit"]
            /\ UNCHANGED enqueue_locks
    /\ UNCHANGED <<notif, lockers, guards, guild_queues, queueGhost, inactivity_handles, enqueue_cancels,
                   join_locks, now_playing_messages, cancel_flag, calls, members,
                   play, stop, disc, mon, joinCalls, cancelLog>>

\* enqueue_track, first half
TaskSubmit_skip_mut(t) ==
    /\ task[t].pc = "submit"
    /\ task' = [task EXCEPT ![t].pc = "append"]
    /\ UNCHANGED <<notif, lockers, guards, guild_queues, queueGhost, registry, cancel_flag, calls, members,
                   play, stop, disc, mon, joinCalls, cancelLog>>

TaskSubmit(t) ==
    LET g == task[t].guild IN
    /\ task[t].pc = "submit"
    /\ calls' = Enqueued(g, task[t].tracks[task[t].i])
    /\ task' = [task EXCEPT ![t].pc = "append"]
    /\ UNCHANGED <<notif, lockers, guards, guild_queues, queueGhost, registry, cancel_flag, members,
                   play, stop, disc, mon, joinCalls, cancelLog>>

\* enqueue_track, second half, and on to the next item
TaskAppend(t) ==
    LET g == task[t].guild IN
    /\ task[t].pc = "append"
    /\ guild_queues' = add_track(guild_queues, g, task[t].tracks[task[t].i])
    /\ task' = [task EXCEPT ![t].pc = "check", ![t].i = @ + 1]
    /\ UNCHANGED <<notif, lockers, guards, queueGhost, registry, cancel_flag, calls, members,
                   play, stop, disc, mon, joinCalls, cancelLog>>

\* -------------------------------------------- /stop (commands/stop.rs)
\* A /stop command arrives for a guild with a Call
StopArrives(s, g) ==
    /\ stop[s].pc = "off"
    /\ \A r \in StopIds : r < s => stop[r].pc # "off"
    /\ g \in DOMAIN calls
    /\ stop' = [stop EXCEPT ![s] = NewStop(g)]
    /\ UNCHANGED <<notif, lockers, guards, guild_queues, queueGhost, registry, cancel_flag, calls, members,
                   play, task, disc, mon, joinCalls, cancelLog>>

StopCleanup(s) ==
    LET g == stop[s].guild IN
    /\ stop[s].pc \in CleanupPcs
    /\ cleanup_guild(g, stop[s].pc, mon)
    /\ stop' = [stop EXCEPT ![s].pc = NextCleanupPc(@, CleanupExit(g, @, "stopq"))]
    /\ UNCHANGED <<notif, lockers, guards, queueGhost, enqueue_locks, join_locks, calls, members, play, task,
                   disc, joinCalls>>

\* handler.queue().stop() on the Call, if there is one
StopQueue(s) ==
    LET g == stop[s].guild IN
    /\ stop[s].pc = "stopq"
    /\ calls' = QueueStopped(g)
    /\ stop' = [stop EXCEPT ![s].pc = "leave"]
    /\ UNCHANGED <<notif, lockers, guards, guild_queues, queueGhost, registry, cancel_flag, members,
                   play, task, disc, mon, joinCalls, cancelLog>>

\* manager.leave(guild_id)
StopLeave(s) ==
    LET g == stop[s].guild IN
    /\ stop[s].pc = "leave"
    /\ CanDrop(g)
    /\ calls' = Left(g)
    /\ disc' = DiscAfterDrop(g)
    /\ stop' = [stop EXCEPT ![s].pc = "done"]
    /\ UNCHANGED <<notif, lockers, guards, guild_queues, queueGhost, registry, cancel_flag, members,
                   play, task, mon, joinCalls, cancelLog>>

\* ------------------------------- DisconnectCleanup::act (commands/play.rs)
DiscCleanup(d) ==
    LET g == disc[d].guild IN
    /\ disc[d].pc \in CleanupPcs
    /\ cleanup_guild(g, disc[d].pc, mon)
    /\ disc' = [disc EXCEPT ![d] =
                    IF NextCleanupPc(@.pc, CleanupExit(g, @.pc, "idle")) = "idle"
                    THEN DiscIdle
                    ELSE [@ EXCEPT !.pc = NextCleanupPc(@, CleanupExit(g, @, "idle"))]]
    /\ UNCHANGED <<notif, lockers, guards, queueGhost, enqueue_locks, join_locks, calls, members, play, task,
                   stop, joinCalls>>

\* The platform drops the connection (the bot is kicked from the channel)
ForcedDisconnect(g) ==
    /\ Connected(g)
    /\ CanDrop(g)
    /\ calls' = Left(g)
    /\ disc' = DiscAfterDrop(g)
    /\ UNCHANGED <<notif, lockers, guards, guild_queues, queueGhost, registry, cancel_flag, members,
                   play, task, stop, mon, joinCalls, cancelLog>>

\* ---------------------- inactivity monitor (infrastructure/inactivity.rs)
INACTIVITY_TIMEOUT == 900
CHECK_INTERVAL == 30

\* is_idle: no Call, or an empty track queue, or at most one member in the
\* voice channel of a cached guild
is_idle_and_mut(g) ==
    \/ g \notin DOMAIN calls
    \/ (calls[g].queue = <<>> /\ members[g].cached /\ members[g].n <= 1)
is_idle(g) ==
    \/ g \notin DOMAIN calls
    \/ calls[g].queue = <<>>
    \/ (members[g].cached /\ members[g].n <= 1)

\* idle_elapsed after one poll
accumulate_noreset_mut(elapsed, idle) == IF idle THEN elapsed + CHECK_INTERVAL ELSE elapsed
accumulate(elapsed, idle) == IF idle THEN elapsed + CHECK_INTERVAL ELSE 0

timed_out_late_mut(elapsed) == elapsed > INACTIVITY_TIMEOUT
timed_out(elapsed) == elapsed >= INACTIVITY_TIMEOUT

\* select!: the sleep of CHECK_INTERVAL elapses; is_idle; accumulate; compare.
\* A notification that arrives while the task waits may lose the select! to a
\* sleep that has elapsed as well; a permit stored before the next select!
\* always wins against the fresh sleep.
MonPoll(m) ==
    LET g == mon[m].guild
        idle == is_idle(g)
        elapsed == accumulate(mon[m].idle_elapsed, idle)
    IN
    /\ mon[m].pc = "select"
    /\ ~mon[m].raced
    /\ mon[m].polls < MaxPolls
    /\ mon' = [mon EXCEPT ![m].idle_elapsed = elapsed,
                          ![m].raced = mon[m].permit,
                          ![m].polls = @ + 1,
                          ![m].idleRun = IF idle THEN @ + 1 ELSE 0,
                          ![m].lastActive = IF idle THEN @ ELSE mon[m].polls + 1,
                          ![m].pc = IF timed_out(elapsed) THEN "td_stop" ELSE "select"]
    /\ UNCHANGED <<notif, lockers, guards, guild_queues, queueGhost, registry, cancel_flag, calls, members,
                   play, task, stop, disc, joinCalls, cancelLog>>

\* select!: cancel_clone.notified() completes; the task returns
MonCancelled(m) ==
    /\ mon[m].pc = "select"
    /\ mon[m].permit
    /\ mon' = [mon EXCEPT ![m] = [MonUnborn EXCEPT !.guild = mon[m].guild,
                                                    !.pc = "cancelled"]]
    /\ UNCHANGED <<notif, lockers, guards, guild_queues, queueGhost, registry, cancel_flag, calls, members,
                   play, task, stop, disc, joinCalls, cancelLog>>

\* teardown: handler.queue().stop()
MonStopQueue(m) ==
    LET g == mon[m].guild IN
    /\ mon[m].pc = "td_stop"
    /\ calls' = QueueStopped(g)
    /\ mon' = [mon EXCEPT ![m].pc = "td_leave"]
    /\ UNCHANGED <<notif, lockers, guards, guild_queues, queueGhost, registry, cancel_flag, members,
                   play, task, stop, disc, joinCalls, cancelLog>>

\* teardown: manager.leave(guild_id)
MonLeave(m) ==
    LET g == mon[m].guild IN
    /\ mon[m].pc = "td_leave"
    /\ CanDrop(g)
    /\ calls' = Left(g)
    /\ disc' = DiscAfterDrop(g)
    /\ mon' = [mon EXCEPT ![m].pc = "c1"]
    /\ UNCHANGED <<notif, lockers, guards, guild_queues, queueGhost, registry, cancel_flag, members,
                   play, task, stop, joinCalls, cancelLog>>

\* teardown: cleanup_guild
MonCleanup(m) ==
    LET g == mon[m].guild IN
    /\ mon[m].pc \in CleanupPcs
    /\ cleanup_guild(g, mon[m].pc,
                     [mon EXCEPT ![m].pc = NextCleanupPc(@, CleanupExit(g, @, "notify"))])
    /\ UNCHANGED <<notif, lockers, guards, queueGhost, enqueue_locks, join_locks, calls, members, play, task,
                   stop, disc, joinCalls>>

MonNotify_rearm_mut(m) ==
    /\ mon[m].pc = "notify"
    /\ mon' = [mon EXCEPT ![m].pc = "select", ![m].idle_elapsed = 0]
    /\ UNCHANGED <<notif, lockers, guards, guild_queues, queueGhost, registry, cancel_flag, calls, members,
                   play, task, stop, disc, joinCalls, cancelLog>>

\* teardown: the "Disconnected due to 15 minutes of inactivity." message; return
MonNotify(m) ==
    /\ mon[m].pc = "notify"
    /\ mon' = [mon EXCEPT ![m] = [MonUnborn EXCEPT !.guild = mon[m].guild,
                                                    !.pc = "stopped"]]
    /\ UNCHANGED <<notif, lockers, guards, guild_queues, queueGhost, registry, cancel_flag, calls, members,
                   play, task, stop, disc, joinCalls, cancelLog>>

\* ------------------------------------------------------------ environment
\* The Call finishes playing the track at the head of its track queue
TrackEnds(g) ==
    /\ g \in DOMAIN calls
    /\ calls[g].queue # <<>>
    /\ calls' = [calls EXCEPT ![g].queue = Tail(@)]
    /\ UNCHANGED <<notif, lockers, guards, guild_queues, queueGhost, registry, cancel_flag, members,
                   play, task, stop, disc, mon, joinCalls, cancelLog>>

\* NowPlayingNotifier::act for the track at the head of the Call's track
\* queue, which starts playing (the events of one Call are handled one after
\* the other). First the previous message reference is removed under the
\* map's write guard; when there was one, the guard lives on through
\* delete_message(..).await.
NotifierRemove(g) ==
    /\ notif[g].pc = "idle"
    /\ g \in DOMAIN calls
    /\ calls[g].queue # <<>>
    /\ Head(calls[g].queue) \notin notif[g].seen
    /\ ~DeleteInFlight
    /\ now_playing_messages' = MapRemove(now_playing_messages, g)
    /\ notif' = [notif EXCEPT ![g].pc = IF g \in DOMAIN now_playing_messages
                                        THEN "deleting" ELSE "send",
                              ![g].track = Head(calls[g].queue),
                              ![g].seen = @ \cup {Head(calls[g].queue)}]
    /\ UNCHANGED <<lockers, guards, guild_queues, queueGhost, inactivity_handles,
                   enqueue_cancels, enqueue_locks, join_locks, cancel_flag, calls, members,
                   procs, joinCalls, cancelLog>>

\* delete_message has returned, the guard is dropped
NotifierDeleted(g) ==
    /\ notif[g].pc = "deleting"
    /\ notif' = [notif EXCEPT ![g].pc = "send"]
    /\ UNCHANGED <<lockers, guards, guild_queues, queueGhost, registry, cancel_flag, calls,
                   members, procs, joinCalls, cancelLog>>

\* A cleanup_guild of guild g has begun (and perhaps ended)
CleanupBegun(g) ==
    \/ \E s \in StopIds : stop[s].guild = g /\ stop[s].pc # "off"
    \/ \E d \in DiscIds : disc[d].guild = g /\ disc[d].pc # "idle"
    \/ \E m \in MonIds : mon[m].guild = g /\ mon[m].pc \in CleanupPcs \cup {"notify"}

\* send_message(..).await, under no lock: Ok(msg) or Err. The field old
\* remembers the messages sent before any cleanup_guild of the guild began.
NotifierSend(g, ok) ==
    /\ notif[g].pc = "send"
    /\ notif' = IF ok THEN [notif EXCEPT ![g].pc = "insert",
                                         ![g].sent = @ \cup {notif[g].track},
                                         ![g].old = IF CleanupBegun(g) THEN @
                                                    ELSE @ \cup {notif[g].track}]
                ELSE [notif EXCEPT ![g].pc = "idle"]
    /\ UNCHANGED <<lockers, guards, guild_queues, queueGhost, registry, cancel_flag, calls,
                   members, procs, joinCalls, cancelLog>>

\* now_playing_messages.write().await.insert(guild_id, (channel_id, msg.id))
NotifierInsert(g) ==
    /\ notif[g].pc = "insert"
    /\ ~DeleteInFlight
    /\ now_playing_messages' = MapPut(now_playing_messages, g, notif[g].track)
    /\ notif' = [notif EXCEPT ![g].pc = "idle", ![g].inserted = @ \cup {notif[g].track}]
    /\ UNCHANGED <<lockers, guards, guild_queues, queueGhost, inactivity_handles,
                   enqueue_cancels, enqueue_locks, join_locks, cancel_flag, calls, members,
                   procs, joinCalls, cancelLog>>

NowPlayingNotifier_act(g) ==
    \/ NotifierRemove(g)
    \/ NotifierDeleted(g)
    \/ \E ok \in BOOLEAN : NotifierSend(g, ok)
    \/ NotifierInsert(g)

\* A member joins or leaves the voice channel (voice states in the cache)
MemberStates == [cached : {TRUE}, n : {1, 2}] \cup [cached : {FALSE}, n : {0}]
MembersChange(g, ms) ==
    /\ members[g] # ms
    /\ members' = [members EXCEPT ![g] = ms]
    /\ UNCHANGED <<notif, lockers, guards, guild_queues, queueGhost, registry, cancel_flag, calls,
                   play, task, stop, disc, mon, joinCalls, cancelLog>>

\* ------------------------------------------------------------ initial state
RestInit ==
    /\ guild_queues = EmptyMap
    /\ lastOp = NoOp
    /\ pushed = [g \in Guilds |-> <<>>]
    /\ taken = [g \in Guilds |-> 0]
    /\ inactivity_handles = EmptyMap
    /\ enqueue_cancels = EmptyMap
    /\ enqueue_locks = EmptyMap
    /\ join_locks = EmptyMap
    /\ now_playing_messages = EmptyMap
    /\ cancel_flag = [t \in PlayIds |-> FALSE]
    /\ calls = EmptyMap
    /\ members = [g \in Guilds |-> [cached |-> TRUE, n |-> 2]]
    /\ task = [t \in PlayIds |-> TaskOff]
    /\ stop = [s \in StopIds |-> StopOff]
    /\ disc = [d \in DiscIds |-> DiscIdle]
    /\ mon = [m \in MonIds |-> MonUnborn]
    /\ joinCalls = [g \in Guilds |-> 0]
    /\ cancelLog = [t \in PlayIds |-> <<>>]
    /\ guards = {}
    /\ lockers = NoLockers
    /\ notif = NoNotif

\* --------------------------------------------- queue operations as steps
RECURSIVE SumLen(_, _)
SumLen(f, S) ==
    IF S = {} THEN 0
    ELSE LET x == CHOOSE y \in S : TRUE IN Len(f[x]) + SumLen(f, S \ {x})
PushedTotal == SumLen(pushed, Guilds)

CallAddTrack(g, t) ==
    /\ PushedTotal < MaxPush
    /\ guild_queues' = add_track(guild_queues, g, t)
    /\ pushed' = [pushed EXCEPT ![g] = Append(@, t)]
    /\ lastOp' = [op |-> "add_track", guild |-> g, ret |-> None]
    /\ UNCHANGED <<notif, lockers, guards, taken, registry, cancel_flag, calls, members, procs, joinCalls,
                   cancelLog>>

CallAdvance(g) ==
    /\ guild_queues' = QueueService_advance(guild_queues, g)
    /\ taken' = [taken EXCEPT ![g] =
                    IF QueueService_list(guild_queues, g) # <<>> THEN @ + 1 ELSE @]
    /\ lastOp' = [op |-> "advance", guild |-> g, ret |-> QueueService_advance_ret(guild_queues, g)]
    /\ UNCHANGED <<notif, lockers, guards, pushed, registry, cancel_flag, calls, members, procs, joinCalls,
                   cancelLog>>

CallCurrent(g) ==
    /\ lastOp' = [op |-> "current", guild |-> g, ret |-> QueueService_current(guild_queues, g)]
    /\ UNCHANGED <<notif, lockers, guards, guild_queues, pushed, taken, registry, cancel_flag, calls,
                   members, procs, joinCalls, cancelLog>>

CallSkip(g) ==
    /\ guild_queues' = QueueService_skip(guild_queues, g)
    /\ lastOp' = [op |-> "skip", guild |-> g, ret |-> QueueService_skip_ret(guild_queues, g)]
    /\ UNCHANGED <<notif, lockers, guards, pushed, taken, registry, cancel_flag, calls, members, procs,
                   joinCalls, cancelLog>>

CallClear(g) ==
    /\ guild_queues' = QueueService_clear(guild_queues, g)
    /\ pushed' = [pushed EXCEPT ![g] = <<>>]
    /\ taken' = [taken EXCEPT ![g] = 0]
    /\ lastOp' = [op |-> "clear", guild |-> g, ret |-> None]
    /\ UNCHANGED <<notif, lockers, guards, registry, cancel_flag, calls, members, procs, joinCalls, cancelLog>>

CallList(g) ==
    /\ lastOp' = [op |-> "list", guild |-> g, ret |-> QueueService_list(guild_queues, g)]
    /\ UNCHANGED <<notif, lockers, guards, guild_queues, pushed, taken, registry, cancel_flag, calls,
                   members, procs, joinCalls, cancelLog>>

QInit ==
    /\ RestInit
    /\ play = [p \in PlayIds |-> PlayOff]

QAddTrack == \E g \in Guilds, t \in Tracks : CallAddTrack(g, t)
QAdvance == \E g \in Guilds : CallAdvance(g)
QCurrent == \E g \in Guilds : CallCurrent(g)
QSkip == \E g \in Guilds : CallSkip(g)
QClear == \E g \in Guilds : CallClear(g)
QList == \E g \in Guilds : CallList(g)

QNext == QAddTrack \/ QAdvance \/ QCurrent \/ QSkip \/ QClear \/ QList

SpecQueue == QInit /\ [][QNext]_vars

\* ------------------------------------------- one session and its monitor
MonitorInit ==
    /\ RestInit
    /\ play = [p \in PlayIds |-> IF p = 1 THEN NewPlay(1, "single", <<"A">>) ELSE PlayOff]

PlayEnsure(P) ==
    \E p \in P :
        \/ PlayFast(p)
        \/ PlayLeaveStale(p)
        \/ PlayLockMap(p)
        \/ PlayLockEntry(p)
        \/ PlayLock(p)
        \/ PlayRecheck(p)
        \/ PlayJoinStart(p)
        \/ \E ok \in BOOLEAN : PlayJoinEnd(p, ok)
PlaySingle(P) ==
    \E p \in P :
        \/ \E found \in BOOLEAN : PlayResolve(p, found)
        \/ PlaySetup(p)
        \/ PlaySubmit(p)
        \/ PlayAppend(p)
MonitorLoop == \E m \in MonIds : MonPoll(m) \/ MonCancelled(m)
MonitorTeardown ==
    \E m \in MonIds : MonStopQueue(m) \/ MonLeave(m) \/ MonCleanup(m) \/ MonNotify(m)
StopRequest(S, G) ==
    \/ \E s \in S, g \in G : StopArrives(s, g)
    \/ \E s \in S : StopCleanup(s) \/ StopQueue(s) \/ StopLeave(s)
Disconnects(G) ==
    \/ \E d \in DiscIds : DiscCleanup(d)
    \/ \E g \in G : ForcedDisconnect(g)
Environment(G) ==
    \/ \E g \in G : TrackEnds(g)
    \/ \E g \in G, ms \in MemberStates : MembersChange(g, ms)

MonitorNext ==
    \/ PlayEnsure({1})
    \/ PlaySingle({1})
    \/ MonitorLoop
    \/ MonitorTeardown
    \/ Disconnects({1})
    \/ Environment({1})

SpecMonitor == MonitorInit /\ [][MonitorNext]_vars

\* What list must return for guild g: the tracks pushed since the last clear,
\* in insertion order, without the ones advance has already popped.
PendingOf(g) == SubSeq(pushed[g], taken[g] + 1, Len(pushed[g]))

\* C8: list returns exactly the pushed tracks in insertion order (advance
\* removes them from the front only), in every state, so that no read-only
\* call (list, current) changes what a later list returns.
C8_ListInsertionOrder ==
    \A g \in Guilds :
        /\ QueueService_list(guild_queues, g) = PendingOf(g)
        /\ (lastOp.op = "list" /\ lastOp.guild = g) => lastOp.ret = PendingOf(g)

C8_Witness ==
    /\ lastOp = [op |-> "list", guild |-> 1, ret |-> <<"A", "B", "C">>]
    /\ pushed[1] = <<"A", "B", "C">>

\* C9: an advance step moves the front of the pending sequence into current
\* and returns it; current then yields that track and list the remaining
\* tracks in order. On an empty pending sequence (or an unknown guild) it
\* returns nothing and current is absent afterwards, whatever it was before.
C9_AdvanceStep(g) ==
    LET before == QueueService_list(guild_queues, g) IN
    IF before # <<>>
    THEN /\ lastOp'.ret = Head(before)
         /\ QueueService_current(guild_queues', g) = Head(before)
         /\ QueueService_list(guild_queues', g) = Tail(before)
    ELSE /\ lastOp'.ret = None
         /\ QueueService_current(guild_queues', g) = None
         /\ QueueService_list(guild_queues', g) = <<>>

C9_Advance == [][\A g \in Guilds : CallAdvance(g) => C9_AdvanceStep(g)]_vars

C9_Witness ==
    /\ lastOp = [op |-> "advance", guild |-> 1, ret |-> "A"]
    /\ QueueService_current(guild_queues, 1) = "A"
    /\ QueueService_list(guild_queues, 1) = <<"B", "C">>

\* C10: a skip step (take_current) returns the current track and leaves
\* current absent, with the pending sequence unchanged; with no current it
\* returns nothing and changes nothing.
C10_SkipStep(g) ==
    LET cur == QueueService_current(guild_queues, g) IN
    /\ lastOp'.ret = cur
    /\ QueueService_current(guild_queues', g) = None
    /\ QueueService_list(guild_queues', g) = QueueService_list(guild_queues, g)
    /\ cur = None => guild_queues' = guild_queues

C10_TakeCurrent == [][\A g \in Guilds : CallSkip(g) => C10_SkipStep(g)]_vars

C10_Witness ==
    /\ lastOp = [op |-> "skip", guild |-> 1, ret |-> "A"]
    /\ QueueService_current(guild_queues, 1) = None
    /\ QueueService_list(guild_queues, 1) = <<"B", "C">>

\* ------------------------------------ concurrent /play for the same guild
JoinInit ==
    /\ RestInit
    /\ play \in [PlayIds -> {NewPlay(g, "single", <<"A">>) : g \in Guilds}]

JoinNext ==
    \/ PlayEnsure(PlayIds)
    \/ PlaySingle(PlayIds)
    \/ \E d \in DiscIds : DiscCleanup(d)
    \/ \E m \in MonIds : MonCancelled(m)

SpecJoin == JoinInit /\ [][JoinNext]_vars

EnsurePcs == {"start", "stale", "lockmap", "lockentry", "lock", "recheck", "join", "joining"}
PlaysOf(g) == {p \in PlayIds : play[p].guild = g}

\* C1: when every /play of a guild entered ensure_voice_connection while no
\* connection existed and each got a handle back, manager.join was invoked
\* exactly once for the guild and all of them hold the same connection.
C1_ExactlyOneJoin ==
    \A g \in Guilds :
        (/\ PlaysOf(g) # {}
         /\ \A p \in PlaysOf(g) : /\ play[p].pc \notin EnsurePcs
                                  /\ play[p].noConn
                                  /\ play[p].handler # <<>>)
        => /\ joinCalls[g] = 1
           /\ \A p, q \in PlaysOf(g) : play[p].handler = play[q].handler

\* ------------------------------------------------ claims on the monitor
TeardownPcs == {"td_stop", "td_leave", "c1", "c2", "c3", "c4", "c4io", "notify"}

\* C6: with CHECK_INTERVAL 30 s and INACTIVITY_TIMEOUT 900 s a monitor tears
\* down on exactly the 30th consecutive idle poll: a monitor in teardown has
\* just seen 30 idle polls in a row, and a monitor that is back in its select!
\* has seen fewer than 30.
C6_TeardownOn30thIdlePoll ==
    \A m \in MonIds :
        /\ mon[m].pc \in TeardownPcs => mon[m].idleRun = 30
        /\ mon[m].pc = "select" => mon[m].idleRun < 30

C6_Witness ==
    \E m \in MonIds : mon[m].pc = "td_stop" /\ mon[m].idleRun = 30 /\ mon[m].polls = 30

\* C7: a non-idle poll resets the accumulator to zero with no partial credit:
\* idle_elapsed is always CHECK_INTERVAL times the number of polls since the
\* last non-idle poll, and teardown comes exactly 30 polls after that poll
\* (after 29 idle polls and a non-idle one: on the 60th poll).
C7_ResetNoPartialCredit ==
    \A m \in MonIds :
        /\ mon[m].pc \in TeardownPcs \cup {"select"} =>
              mon[m].idle_elapsed = CHECK_INTERVAL * (mon[m].polls - mon[m].lastActive)
        /\ mon[m].pc \in TeardownPcs => mon[m].polls = mon[m].lastActive + 30

C7_Witness ==
    \E m \in MonIds :
        mon[m].pc = "td_stop" /\ mon[m].lastActive = 30 /\ mon[m].polls = 60

\* --------------------------- two bulk /play commands in a running session
\* The session of guild 1 as setup_fresh_join leaves it: connected Call with
\* the DisconnectCleanup handler, monitor 1 registered and waiting
SessionUp ==
    /\ calls = MapPut(EmptyMap, 1, [connected |-> TRUE, gen |-> 1, queue |-> <<>>,
                                    hooked |-> TRUE])
    /\ inactivity_handles = MapPut(EmptyMap, 1, 1)
    /\ mon = [m \in MonIds |-> IF m = 1 THEN spawn_inactivity_monitor(1) ELSE MonUnborn]
    /\ joinCalls = [g \in Guilds |-> IF g = 1 THEN 1 ELSE 0]

CollA == <<"A", "B", "C">>
CollB == <<"D">>

\* A /play of a collection that has its connection (the fast path of
\* ensure_voice_connection) and its track list, about to run setup_fresh_join
BulkPlay(coll) == [NewPlay(1, "bulk", coll) EXCEPT !.pc = "setup", !.handler = <<1>>]

BulkInit ==
    /\ SessionUp
    /\ guild_queues = EmptyMap
    /\ lastOp = NoOp
    /\ pushed = [g \in Guilds |-> <<>>]
    /\ taken = [g \in Guilds |-> 0]
    /\ enqueue_cancels = EmptyMap
    /\ enqueue_locks = EmptyMap
    /\ join_locks = EmptyMap
    /\ now_playing_messages = EmptyMap
    /\ cancel_flag = [t \in PlayIds |-> FALSE]
    /\ members = [g \in Guilds |-> [cached |-> TRUE, n |-> 2]]
    /\ task = [t \in PlayIds |-> TaskOff]
    /\ stop = [s \in StopIds |-> StopOff]
    /\ disc = [d \in DiscIds |-> DiscIdle]
    /\ cancelLog = [t \in PlayIds |-> <<>>]
    /\ guards = {}
    /\ lockers = NoLockers
    /\ notif = NoNotif
    /\ play = [p \in PlayIds |-> IF p = 1 THEN BulkPlay(CollA)
                                 ELSE IF p = 2 THEN BulkPlay(CollB)
                                 ELSE PlayOff]

PlayBulk(P) == \E p \in P : PlaySetup(p) \/ PlaySpawn(p)
BulkTask == \E t \in PlayIds : TaskLock(t) \/ TaskCheck(t) \/ TaskSubmit(t) \/ TaskAppend(t)

BulkNext ==
    \/ PlayBulk({1, 2})
    \/ BulkTask
    \/ StopRequest({1}, {1})
    \/ Disconnects({1})
    \/ \E m \in MonIds : MonCancelled(m)

SpecBulk == BulkInit /\ [][BulkNext]_vars

IsPrefix(s, t) == Len(s) <= Len(t) /\ s = SubSeq(t, 1, Len(s))
\* No cleanup_guild has begun for guild 1: none is in progress, and the
\* monitor of the initial session is still registered (a cleanup that has
\* run deregisters it, and a later setup_fresh_join registers another one).
NoCleanupYet ==
    /\ \A s \in StopIds : stop[s].pc = "off"
    /\ \A d \in DiscIds : disc[d].pc = "idle"
    /\ 1 \in DOMAIN inactivity_handles
    /\ inactivity_handles[1] = 1
TasksDone(T) == \A t \in T : task[t].pc = "done"
Appended(t) == task[t].i - 1

\* C2: two bulk tasks of one guild with collections A and B never interleave:
\* as long as no cleanup has begun, the pending sequence is a prefix of A
\* followed by B or of B followed by A, and it is one of the two when both
\* tasks have finished.
C2_NoInterleaving ==
    LET q == QueueService_list(guild_queues, 1) IN
    NoCleanupYet =>
        /\ IsPrefix(q, CollA \o CollB) \/ IsPrefix(q, CollB \o CollA)
        /\ TasksDone({1, 2}) => q \in {CollA \o CollB, CollB \o CollA}

C2_Witness ==
    /\ NoCleanupYet
    /\ TasksDone({1, 2})
    /\ QueueService_list(guild_queues, 1) = CollB \o CollA

\* C3 as stated: a task whose flag was set after it had processed k items has
\* appended exactly k entries when it is done.
C3_ExactlyK ==
    \A t \in PlayIds :
        (cancelLog[t] # <<>> /\ task[t].pc = "done")
        => Appended(t) = cancelLog[t][1].at

\* C3 as the code has it: the flag is read at the head of each item only, so
\* a task whose flag is set after k processed items appends k entries when
\* the flag is set between two items and k + 1 when item k + 1 is already in
\* progress; it never appends more than that, and a task that has observed
\* its flag has returned.
C3_AtMostTheItemInProgress ==
    \A t \in PlayIds :
        /\ cancelLog[t] # <<>> =>
              LET lim == cancelLog[t][1].at + (IF cancelLog[t][1].mid THEN 1 ELSE 0) IN
              /\ Appended(t) <= lim
              /\ task[t].pc = "done" => Appended(t) = lim
        /\ task[t].outcome = "cancelled" => task[t].pc = "done" /\ cancel_flag[t]

C3_Witness ==
    /\ task[1].outcome = "cancelled"
    /\ cancelLog[1] = <<[at |-> 1, mid |-> TRUE]>>
    /\ Appended(1) = 2

\* ------------------------------ cleanup_guild invoked more than once
\* States of guild 1 in a session that the callers of cleanup_guild can find:
\* any queue the QueueService operations produce, the monitor registered or
\* already deregistered, a finished collection whose flag is still listed or
\* none, a "Now Playing" message reference or none. Guild 2 has a queue of
\* its own.
SessionQueues ==
    {[current |-> c, tracks |-> ts] : c \in {None, "A"}, ts \in {<<>>, <<"B">>, <<"B", "C">>}}
OtherGuildQueue == [current |-> None, tracks |-> <<"D">>]

CleanupInit ==
    /\ \E withQueue \in BOOLEAN, q \in SessionQueues :
          guild_queues = IF withQueue THEN MapPut(MapPut(EmptyMap, 2, OtherGuildQueue), 1, q)
                         ELSE MapPut(EmptyMap, 2, OtherGuildQueue)
    /\ lastOp = NoOp
    /\ pushed = [g \in Guilds |-> <<>>]
    /\ taken = [g \in Guilds |-> 0]
    /\ \E connected \in BOOLEAN, tq \in {<<>>, <<"B">>} :
          calls = MapPut(EmptyMap, 1, [connected |-> connected, gen |-> 1, queue |-> tq,
                                       hooked |-> TRUE])
    /\ \E registered \in BOOLEAN :
          /\ inactivity_handles = IF registered THEN MapPut(EmptyMap, 1, 1) ELSE EmptyMap
          /\ mon = [m \in MonIds |->
                      IF m # 1 THEN MonUnborn
                      ELSE IF registered THEN spawn_inactivity_monitor(1)
                      ELSE [MonUnborn EXCEPT !.guild = 1, !.pc = "cancelled"]]
    /\ \E listed \in BOOLEAN :
          /\ enqueue_cancels = IF listed THEN MapPut(EmptyMap, 1, <<1>>) ELSE EmptyMap
          /\ enqueue_locks = IF listed THEN MapPut(EmptyMap, 1, <<>>) ELSE EmptyMap
          /\ task = [t \in PlayIds |->
                      IF t = 1 /\ listed
                      THEN [guild |-> 1, tracks |-> <<"B", "C">>, pc |-> "done", i |-> 3,
                            outcome |-> "complete"]
                      ELSE TaskOff]
          /\ play = [p \in PlayIds |->
                      IF p = 1 /\ listed
                      THEN [NewPlay(1, "bulk", <<"B", "C">>) EXCEPT !.pc = "done",
                                                                    !.handler = <<1>>]
                      ELSE PlayOff]
    /\ now_playing_messages \in {EmptyMap, MapPut(EmptyMap, 1, "A")}
    /\ join_locks = MapPut(EmptyMap, 1, <<>>)
    /\ cancel_flag = [t \in PlayIds |-> FALSE]
    /\ members = [g \in Guilds |-> [cached |-> TRUE, n |-> 2]]
    /\ stop = [s \in StopIds |-> StopOff]
    /\ disc = [d \in DiscIds |-> DiscIdle]
    /\ joinCalls = [g \in Guilds |-> IF g = 1 THEN 1 ELSE 0]
    /\ cancelLog = [t \in PlayIds |-> <<>>]
    /\ guards = {}
    /\ lockers = NoLockers
    /\ notif = NoNotif

CleanupNext ==
    \/ StopRequest(StopIds, {1})
    \/ Disconnects({1})
    \/ \E m \in MonIds : MonCancelled(m)

SpecCleanup == CleanupInit /\ [][CleanupNext]_vars

\* The guild entry fully reset
GuildReset(g) ==
    /\ QueueService_list(guild_queues, g) = <<>>
    /\ QueueService_current(guild_queues, g) = None
    /\ g \notin DOMAIN inactivity_handles
    /\ g \notin DOMAIN enqueue_cancels
    /\ g \notin DOMAIN now_playing_messages

\* The /stop commands whose cleanup_guild for g has returned
StopsPast(g) == {s \in StopIds : stop[s].guild = g /\ stop[s].pc \in {"stopq", "leave", "done"}}

\* C4: cleanup_guild is idempotent. Once one invocation for a guild has
\* returned, the guild is reset (empty pending sequence, no current, no
\* monitor handle, no flag list, no "Now Playing" reference), every listed
\* flag is set and the monitor has been notified, and it stays so whether a
\* second invocation runs after it, runs concurrently with it, or does not run
\* at all; no invocation can fail, an invocation waits only for the "Now
\* Playing" map while another one has its message deleted, and the other
\* guild is left alone.
C4_CleanupIdempotent ==
    /\ StopsPast(1) # {} =>
          /\ GuildReset(1)
          /\ \A t \in PlayIds : task[t].guild = 1 => cancel_flag[t]
          /\ mon[1].guild = 1 => mon[1].permit \/ mon[1].pc = "cancelled"
    /\ \A s \in StopIds : stop[s].pc \in CleanupPcs =>
          ENABLED StopCleanup(s) \/ (stop[s].pc = "c4" /\ DeleteInFlight)
    /\ \A d \in DiscIds : disc[d].pc \in CleanupPcs =>
          ENABLED DiscCleanup(d) \/ (disc[d].pc = "c4" /\ DeleteInFlight)
    /\ guild_queues[2] = OtherGuildQueue

C4_Witness ==
    /\ StopsPast(1) = StopIds
    /\ \A d \in DiscIds : disc[d].pc = "idle"
    /\ cancel_flag[1]
    /\ mon[1].pc = "cancelled"
    /\ GuildReset(1)

\* -------------------- a session under /play, /stop, disconnects, timeouts
\* The session that /play 1 of guild 1 set up, a long time ago: its track has
\* been played, the monitor has polled 59 times, the last 29 of them idle.
\* /play 2 arrives now. Monitors spawned from here on do not reach their first
\* poll, 30 s later, within the behaviours considered.
SessionInit ==
    /\ guild_queues = MapPut(EmptyMap, 1, push(DefaultQueue, "A"))
    /\ lastOp = NoOp
    /\ pushed = [g \in Guilds |-> <<>>]
    /\ taken = [g \in Guilds |-> 0]
    /\ calls = MapPut(EmptyMap, 1, [connected |-> TRUE, gen |-> 1, queue |-> <<>>,
                                    hooked |-> TRUE])
    /\ inactivity_handles = MapPut(EmptyMap, 1, 1)
    /\ mon = [m \in MonIds |->
                IF m = 1
                THEN [spawn_inactivity_monitor(1) EXCEPT
                         !.idle_elapsed = INACTIVITY_TIMEOUT - CHECK_INTERVAL,
                         !.polls = 59, !.idleRun = 29, !.lastActive = 30]
                ELSE MonUnborn]
    /\ joinCalls = [g \in Guilds |-> IF g = 1 THEN 1 ELSE 0]
    /\ enqueue_cancels = EmptyMap
    /\ enqueue_locks = EmptyMap
    /\ join_locks = MapPut(EmptyMap, 1, <<>>)
    /\ now_playing_messages = EmptyMap
    /\ cancel_flag = [t \in PlayIds |-> FALSE]
    /\ members = [g \in Guilds |-> [cached |-> TRUE, n |-> 2]]
    /\ task = [t \in PlayIds |-> TaskOff]
    /\ stop = [s \in StopIds |-> StopOff]
    /\ disc = [d \in DiscIds |-> DiscIdle]
    /\ cancelLog = [t \in PlayIds |-> <<>>]
    /\ guards = {}
    /\ lockers = NoLockers
    /\ notif = NoNotif
    /\ play = [p \in PlayIds |->
                IF p = 1 THEN [NewPlay(1, "single", <<"A">>) EXCEPT !.pc = "done",
                                                                    !.handler = <<1>>,
                                                                    !.noConn = TRUE]
                ELSE IF p = 2 THEN NewPlay(1, "single", <<"B">>)
                ELSE PlayOff]

SessionNext ==
    \/ PlayEnsure({2})
    \/ PlaySingle({2})
    \/ StopRequest({1}, {1})
    \/ MonPoll(1)
    \/ \E m \in MonIds : MonCancelled(m)
    \/ MonitorTeardown
    \/ Disconnects({1})
    \/ NotifierRemove(1)
    \/ \E ok \in BOOLEAN : NotifierSend(1, ok)
    \/ NotifierInsert(1)

SpecSession == SessionInit /\ [][SessionNext]_vars

MonitorsAlive(g) ==
    {m \in MonIds : mon[m].guild = g /\ mon[m].pc \notin {"unborn", "cancelled", "stopped"}}

\* C5: at most one inactivity monitor is alive (spawned and not yet returned)
\* per guild, in every reachable state.
C5_AtMostOneMonitor == \A g \in Guilds : Cardinality(MonitorsAlive(g)) <= 1

\* ------------------------------------------- more on concurrent /play
JoinsInFlight(g) == {p \in PlayIds : play[p].guild = g /\ play[p].pc = "joining"}
UnderJoinLock(g) ==
    {p \in PlayIds : play[p].guild = g /\ play[p].pc \in {"recheck", "join", "joining"}}

\* C11: at most one manager.join is in flight per guild, however many /play
\* commands of the guild run: the command between lock and the end of the
\* join is the holder of the guild's join mutex, and there is only one.
C11_OneJoinInFlight ==
    \A g \in Guilds :
        /\ Cardinality(JoinsInFlight(g)) <= 1
        /\ \A p \in UnderJoinLock(g) : g \in DOMAIN join_locks /\ join_locks[g] = <<p>>

C11_Witness ==
    \E p, q \in PlayIds :
        /\ play[p].guild = 1 /\ play[p].pc = "joining"
        /\ play[q].guild = 1 /\ play[q].pc = "lock"
        /\ joinCalls[1] = 2

\* C12: a monitor that has been signalled from outside (it is signalled while
\* it has not reached the deregistration step of its own cleanup_guild) takes
\* no teardown step afterwards: it does not stop the track queue, leave, run
\* cleanup_guild or send the inactivity message.
SignalledFromOutside(m) ==
    mon[m].permit /\ mon[m].pc \in {"select", "td_stop", "td_leave", "c1", "c2", "c3"}
C12_NoTeardownAfterSignal ==
    [][\A m \in MonIds :
         SignalledFromOutside(m) =>
            ~(MonStopQueue(m) \/ MonLeave(m) \/ MonCleanup(m) \/ MonNotify(m))]_vars

\* C13: a failed manager.join gives the caller JoinError and no handle, and
\* the guild's join mutex is released: it is only ever held by a command that
\* is between lock and the end of its join, so a later ensure_voice_connection
\* of the guild acquires it and joins again.
C13_JoinErrorReleasesLock ==
    \A g \in Guilds : \A p \in PlaysOf(g) :
        /\ play[p].err = "JoinError" => play[p].pc = "done" /\ play[p].handler = <<>>
        /\ (g \in DOMAIN join_locks /\ join_locks[g] = <<p>>) => p \in UnderJoinLock(g)

C13_Witness ==
    \E p, q \in PlaysOf(1) :
        /\ play[p].err = "JoinError"
        /\ play[q].pc = "joining"
        /\ joinCalls[1] = 2

\* C14: spawn_background_enqueue is fire-and-forget. It is never blocked,
\* whoever holds the guild's bulk mutex; the task it spawns has its flag in
\* the guild's flag list from the start (the flag leaves the list only when a
\* cleanup sets it), the flag is born unset (a set flag has been set by a
\* cleanup), and the command has returned when the task exists.
C14_FireAndForget ==
    \A p \in PlayIds :
        /\ play[p].pc = "spawn" => ENABLED PlaySpawn(p)
        /\ task[p].pc # "off" =>
              /\ play[p].pc = "done"
              /\ p \in FlagsOf(task[p].guild) \/ cancel_flag[p]
        /\ cancel_flag[p] => cancelLog[p] # <<>>
        /\ (play[p].kind = "bulk" /\ play[p].pc = "done") => task[p].pc # "off"

C14_Witness ==
    /\ task[1].pc = "append"
    /\ enqueue_locks[1] = <<1>>
    /\ play[2].pc = "done"
    /\ task[2].pc = "wait"
    /\ 1 \in DOMAIN enqueue_cancels
    /\ enqueue_cancels[1] = <<1, 2>>
    /\ ~cancel_flag[2]

\* C15: the current slot of a guild queue holds one track or nothing, and it
\* comes to hold a track it did not hold before only in an advance step for
\* that guild: add_track, skip, clear, current and list leave it as it was or
\* absent.
C15_CurrentOnlyByAdvance ==
    [][\A g \in Guilds :
         LET before == QueueService_current(guild_queues, g)
             after == QueueService_current(guild_queues', g) IN
         /\ after \in Tracks \cup {None}
         /\ after \notin {None, before} => CallAdvance(g)]_vars

C15_Witness ==
    /\ lastOp = [op |-> "add_track", guild |-> 1, ret |-> None]
    /\ QueueService_current(guild_queues, 1) = "A"
    /\ QueueService_list(guild_queues, 1) = <<"B">>

\* ------------------------------------------------ two guilds side by side
\* Guild 2 has a session of its own: a queue, a finished collection (task 3)
\* whose flag is still listed, monitor 2 registered, a "Now Playing" message.
\* Guild 1 has a session with a "Now Playing" message and a /play of a
\* collection about to be set up.
Guild2Queue == [current |-> "D", tracks |-> <<"C">>]
Guild2Call == [connected |-> TRUE, gen |-> 1, queue |-> <<"C">>, hooked |-> TRUE]
Guild2Task == [guild |-> 2, tracks |-> <<"D", "C">>, pc |-> "done", i |-> 3,
               outcome |-> "complete"]

GuildsInit ==
    /\ guild_queues = MapPut(EmptyMap, 2, Guild2Queue)
    /\ lastOp = NoOp
    /\ pushed = [g \in Guilds |-> <<>>]
    /\ taken = [g \in Guilds |-> 0]
    /\ calls = MapPut(MapPut(EmptyMap, 2, Guild2Call), 1,
                      [connected |-> TRUE, gen |-> 1, queue |-> <<>>, hooked |-> TRUE])
    /\ inactivity_handles = MapPut(MapPut(EmptyMap, 2, 2), 1, 1)
    /\ mon = [m \in MonIds |-> IF m \in {1, 2} THEN spawn_inactivity_monitor(m)
                               ELSE MonUnborn]
    /\ joinCalls = [g \in Guilds |-> 1]
    /\ enqueue_cancels = MapPut(EmptyMap, 2, <<3>>)
    /\ enqueue_locks = MapPut(EmptyMap, 2, <<>>)
    /\ join_locks = [g \in Guilds |-> <<>>]
    /\ now_playing_messages = MapPut(MapPut(EmptyMap, 2, "D"), 1, "A")
    /\ cancel_flag = [t \in PlayIds |-> FALSE]
    /\ members = [g \in Guilds |-> [cached |-> TRUE, n |-> 2]]
    /\ task = [t \in PlayIds |-> IF t = 3 THEN Guild2Task ELSE TaskOff]
    /\ stop = [s \in StopIds |-> StopOff]
    /\ disc = [d \in DiscIds |-> DiscIdle]
    /\ cancelLog = [t \in PlayIds |-> <<>>]
    /\ guards = {}
    /\ lockers = NoLockers
    /\ notif = NoNotif
    /\ play = [p \in PlayIds |->
                IF p = 1 THEN BulkPlay(<<"B">>)
                ELSE IF p = 3 THEN [NewPlay(2, "bulk", <<"D", "C">>) EXCEPT
                                       !.pc = "done", !.handler = <<1>>]
                ELSE PlayOff]

\* Everything that is done for guild 1
GuildsNext ==
    \/ CallAddTrack(1, "A")
    \/ CallAdvance(1)
    \/ CallSkip(1)
    \/ CallClear(1)
    \/ PlayBulk({1})
    \/ BulkTask
    \/ StopRequest({1}, {1})
    \/ Disconnects({1})
    \/ \E m \in MonIds : MonCancelled(m)

SpecGuilds == GuildsInit /\ [][GuildsNext]_vars

\* C16: guilds are independent. Whatever is done for guild 1 (add_track,
\* advance, skip, clear, cleanup_guild, a bulk task scheduled and cancelled, a
\* monitor handle registered and removed), guild 2 keeps its queue, its flag
\* list with the flag unset, its monitor handle with the monitor unsignalled,
\* and its "Now Playing" message reference.
C16_GuildsIndependent ==
    /\ 2 \in DOMAIN guild_queues /\ guild_queues[2] = Guild2Queue
    /\ 2 \in DOMAIN enqueue_cancels /\ enqueue_cancels[2] = <<3>>
    /\ ~cancel_flag[3]
    /\ 2 \in DOMAIN inactivity_handles /\ inactivity_handles[2] = 2
    /\ mon[2] = spawn_inactivity_monitor(2)
    /\ 2 \in DOMAIN now_playing_messages /\ now_playing_messages[2] = "D"

C16_Witness ==
    /\ task[1].outcome = "cancelled"
    /\ stop[1].pc = "done"
    /\ lastOp = [op |-> "clear", guild |-> 1, ret |-> None]
    /\ 1 \notin DOMAIN enqueue_cancels
    /\ 1 \in DOMAIN inactivity_handles /\ inactivity_handles[1] = 3

\* The moves of a monitor task through spawn_inactivity_monitor's body
MonitorMoves ==
    {<<"unborn", "select">>, <<"select", "td_stop">>, <<"select", "cancelled">>,
     <<"td_stop", "td_leave">>, <<"td_leave", "c1">>, <<"c1", "c2">>, <<"c2", "c3">>,
     <<"c3", "c4">>, <<"c4", "c4io">>, <<"c4", "notify">>, <<"c4io", "notify">>,
     <<"notify", "stopped">>}

\* C17: a monitor that crosses the threshold stops the track queue, leaves,
\* runs cleanup_guild from its first step to its last, sends its message once
\* and returns; a monitor that has returned never moves again.
C17_TeardownOrder ==
    [][\A m \in MonIds :
         LET g == mon[m].guild IN
         mon'[m].pc # mon[m].pc =>
            /\ <<mon[m].pc, mon'[m].pc>> \in MonitorMoves
            /\ mon[m].pc = "td_stop" => CallOf(g)'.queue = <<>>
            /\ mon[m].pc = "td_leave" => ~Connected(g)'
            /\ mon[m].pc = "c1" => g \notin DOMAIN enqueue_cancels'
            /\ mon[m].pc = "c2" => QueueService_list(guild_queues', g) = <<>>
            /\ mon[m].pc = "c3" => g \notin DOMAIN inactivity_handles'
            /\ mon[m].pc = "c4" => g \notin DOMAIN now_playing_messages'
            /\ mon[m].pc = "select" /\ mon'[m].pc = "td_stop" =>
                  mon'[m].idle_elapsed >= INACTIVITY_TIMEOUT]_vars

C17_Witness ==
    /\ mon[1].pc = "stopped"
    /\ ~Connected(1)
    /\ GuildReset(1)
    /\ \A m \in MonIds : m # 1 => mon[m].pc = "unborn"

\* The order of the steps of one cleanup_guild invocation
CleanupOrder == {<<"c1", "c2">>, <<"c2", "c3">>, <<"c3", "c4">>,
                 <<"c4", "c4io">>, <<"c4", "stopq">>, <<"c4", "idle">>,
                 <<"c4io", "stopq">>, <<"c4io", "idle">>}

\* What the step at pc does for guild g, and what it leaves for later steps
CleanupStepEffect(g, pc) ==
    CASE pc = "c1" ->
            /\ \A t \in FlagsOf(g) : cancel_flag'[t]
            /\ g \notin DOMAIN enqueue_cancels'
            /\ UNCHANGED <<guild_queues, inactivity_handles, now_playing_messages>>
      [] pc = "c2" ->
            /\ QueueService_list(guild_queues', g) = <<>>
            /\ QueueService_current(guild_queues', g) = None
            /\ UNCHANGED <<inactivity_handles, now_playing_messages>>
      [] pc = "c3" ->
            /\ g \notin DOMAIN inactivity_handles'
            /\ g \in DOMAIN inactivity_handles => mon'[inactivity_handles[g]].permit
            /\ UNCHANGED now_playing_messages
      [] pc = "c4" ->
            /\ g \notin DOMAIN now_playing_messages'
      [] pc = "c4io" ->
            /\ UNCHANGED <<guild_queues, inactivity_handles, now_playing_messages>>

\* C18: one cleanup_guild invocation detaches the flag list and sets every
\* flag in it, then clears the queue, then deregisters and signals the
\* monitor, then drops the "Now Playing" reference, in this order; a flag that
\* is set stays set, so every flag listed at detach time is set when the
\* queue is cleared.
C18_CleanupStepOrder ==
    [][/\ \A s \in StopIds :
            (stop[s].pc \in CleanupPcs /\ stop'[s].pc # stop[s].pc) =>
               /\ <<stop[s].pc, stop'[s].pc>> \in CleanupOrder
               /\ CleanupStepEffect(stop[s].guild, stop[s].pc)
       /\ \A d \in DiscIds :
            (disc[d].pc \in CleanupPcs /\ disc'[d].pc # disc[d].pc) =>
               /\ <<disc[d].pc, disc'[d].pc>> \in CleanupOrder
               /\ CleanupStepEffect(disc[d].guild, disc[d].pc)
       /\ \A t \in PlayIds : (cancel_flag[t] /\ task[t].pc # "off") => cancel_flag'[t]]_vars

C18_Witness ==
    /\ stop[1].pc = "c2"
    /\ cancel_flag[1] /\ cancel_flag[2]
    /\ QueueService_list(guild_queues, 1) = <<"A", "B">>
    /\ 1 \in DOMAIN inactivity_handles

\* ------------------------------------------ bulk tasks under a fair runtime
\* The runtime runs every task that can run, the guild's mutex wakes its
\* waiters, and every enqueue_input and add_track returns.
BulkFairness ==
    \A t \in PlayIds :
        /\ WF_vars(TaskLock(t))
        /\ WF_vars(TaskCheck(t))
        /\ WF_vars(TaskSubmit(t))
        /\ WF_vars(TaskAppend(t))

SpecBulkLive == BulkInit /\ [][BulkNext]_vars /\ BulkFairness

\* C19: the guild's bulk mutex is held only by a task that is inside its loop
\* (a task that has returned, complete or cancelled, does not hold it), and
\* every bulk task that has been spawned eventually returns.
C19_MutexReleasedTasksEnd ==
    /\ [](\A t \in PlayIds :
            (task[t].pc # "off" /\ enqueue_locks[task[t].guild] = <<t>>)
               => task[t].pc \in {"check", "submit", "append"})
    /\ \A t \in PlayIds : (task[t].pc = "wait") ~> (task[t].pc = "done")

C19_Witness ==
    /\ task[1].outcome = "cancelled"
    /\ task[2].pc = "append"
    /\ enqueue_locks[1] = <<2>>

\* C20: no registry lock is held across external I/O: no cleanup_guild
\* invocation is waiting for delete_message to return with the write guard of
\* the "Now Playing" map still alive.
C20_NoIOUnderRegistryLock == ~DeleteInFlight

SinglePlay(track) ==
    [NewPlay(1, "single", <<track>>) EXCEPT !.pc = "setup", !.handler = <<1>>]

MixedInit ==
    /\ SessionUp
    /\ guild_queues = EmptyMap
    /\ lastOp = NoOp
    /\ pushed = [g \in Guilds |-> <<>>]
    /\ taken = [g \in Guilds |-> 0]
    /\ enqueue_cancels = EmptyMap
    /\ enqueue_locks = EmptyMap
    /\ join_locks = EmptyMap
    /\ now_playing_messages = EmptyMap
    /\ cancel_flag = [t \in PlayIds |-> FALSE]
    /\ members = [g \in Guilds |-> [cached |-> TRUE, n |-> 2]]
    /\ task = [t \in PlayIds |-> TaskOff]
    /\ stop = [s \in StopIds |-> StopOff]
    /\ disc = [d \in DiscIds |-> DiscIdle]
    /\ cancelLog = [t \in PlayIds |-> <<>>]
    /\ guards = {}
    /\ lockers = NoLockers
    /\ notif = NoNotif
    /\ play = [p \in PlayIds |-> IF p = 1 THEN BulkPlay(CollA)
                                 ELSE IF p \in {2, 3} THEN SinglePlay("D")
                                 ELSE PlayOff]

PlayEnqueue ==
    \E p \in PlayIds : PlaySetup(p) \/ PlaySpawn(p) \/ PlaySubmit(p) \/ PlayAppend(p)

MixedNext ==
    \/ PlayEnqueue
    \/ BulkTask
    \/ StopRequest({1}, {1})
    \/ \E m \in MonIds : MonCancelled(m)

SpecMixed == MixedInit /\ [][MixedNext]_vars

InCollA(track) == track \in Range(CollA)
\* What task 1 has handed to the pipeline, and what it has appended
SubmittedBy1 == SelectSeq(CallOf(1).queue, InCollA)
AppendedBy1 == SelectSeq(QueueService_list(guild_queues, 1), InCollA)

\* C22: as long as no cleanup has begun, the tracks of the one bulk task that
\* are in the pipeline and those that are in the guild queue are prefixes of
\* its list in the list's order, whatever single tracks lie between them; the
\* pipeline is ahead of the guild queue by the one item in progress at most.
C22_PrefixInOrder ==
    NoCleanupYet =>
        /\ AppendedBy1 = SubSeq(CollA, 1, Appended(1))
        /\ SubmittedBy1 = SubSeq(CollA, 1, Appended(1)
                                           + (IF task[1].pc = "append" THEN 1 ELSE 0))

C22_Witness ==
    /\ NoCleanupYet
    /\ task[1].pc = "append"
    /\ CallOf(1).queue = <<"A", "D", "B">>
    /\ QueueService_list(guild_queues, 1) = <<"D", "A">>

\* ------------------------------------------------ /list (commands/list.rs)
\* The reply of /list: EmptyQueue when the current slot is empty, else the
\* current track with the pending tracks
list_reply(map, guild_id) ==
    IF QueueService_current(map, guild_id) = None
    THEN [err |-> "EmptyQueue", current |-> None, upcoming |-> <<>>]
    ELSE [err |-> None, current |-> QueueService_current(map, guild_id),
          upcoming |-> QueueService_list(map, guild_id)]

\* C23: once NowPlayingNotifier has announced the track that started playing,
\* the guild queue's current slot holds that track and /list replies with a
\* snapshot.
C23_CurrentHoldsPlaying ==
    \A g \in DOMAIN now_playing_messages :
        /\ QueueService_current(guild_queues, g) = now_playing_messages[g]
        /\ list_reply(guild_queues, g).err = None

\* C24: a bulk task that holds the mutex with its flag set and no item
\* processed yet takes one step only: it returns as cancelled and frees the
\* mutex; the pipeline, the guild queues and the commands (which have
\* answered already) are as they were.
C24_CancelledBeforeFirstItem ==
    [][\A t \in PlayIds :
          (/\ task[t].pc = "check"
           /\ task[t].i = 1
           /\ task[t].tracks # <<>>
           /\ cancel_flag[t]
           /\ task'[t] # task[t])
          => /\ task'[t] = [task[t] EXCEPT !.pc = "done", !.outcome = "cancelled"]
             /\ enqueue_locks'[task[t].guild] = <<>>
             /\ calls' = calls
             /\ guild_queues' = guild_queues
             /\ play' = play]_vars

\* Task 2 waited for the mutex behind task 1 when the cleanup set both flags
C24_Witness ==
    /\ task[1].outcome = "cancelled"
    /\ Appended(1) >= 1
    /\ task[2].outcome = "cancelled"
    /\ Appended(2) = 0
    /\ cancelLog[2] = <<[at |-> 0, mid |-> FALSE]>>
    /\ 1 \in DOMAIN enqueue_locks
    /\ enqueue_locks[1] = <<>>

\* C25: a /play that begins ensure_voice_connection while the guild has a
\* registered monitor handle and a Call in the manager gets that Call in one
\* step: the join mutex map and its guards, the Calls (no leave) and the
\* count of joins are as they were.
C25_FastPath ==
    [][\A p \in PlayIds :
          (/\ play[p].pc = "start"
           /\ play[p].guild \in DOMAIN inactivity_handles
           /\ play[p].guild \in DOMAIN calls
           /\ play'[p] # play[p])
          => /\ play'[p].pc = "have"
             /\ play'[p].handler = <<calls[play[p].guild].gen>>
             /\ join_locks' = join_locks
             /\ guards' = guards
             /\ calls' = calls
             /\ joinCalls' = joinCalls]_vars

C25_Witness ==
    /\ play[2].pc = "have"
    /\ play[2].handler = <<1>>
    /\ joinCalls[1] = 1
    /\ join_locks = MapPut(EmptyMap, 1, <<>>)
    /\ Connected(1)

\* The poll that monitor m takes in this step is counted idle
PollTaken(m) == mon'[m].polls = mon[m].polls + 1
CountedIdle(m) == mon'[m].idleRun = mon[m].idleRun + 1

C27_JoinsOfOtherGuildsInParallel ==
    \A q \in PlayIds :
        /\ play[q].pc = "lock" =>
              (ENABLED PlayLock(q) <=> UnderJoinLock(play[q].guild) = {})
        /\ play[q].pc = "recheck" => ENABLED PlayRecheck(q)
        /\ play[q].pc = "join" => ENABLED PlayJoinStart(q)
        /\ play[q].pc = "joining" => ENABLED PlayJoinEnd(q, TRUE)

\* Guild 1's join is in flight under its mutex, and guild 2's too
C27_Witness ==
    \E p \in PlaysOf(1), q \in PlaysOf(2) :
        /\ play[p].pc = "joining"
        /\ join_locks[1] = <<p>>
        /\ play[q].pc = "joining"
        /\ join_locks[2] = <<q>>

\* How often a track occurs in a sequence
Count(seq, track) == Cardinality({i \in 1..Len(seq) : seq[i] = track})

\* C28: as long as no cleanup has begun, every track in the guild queue is in
\* the pipeline as often at least (it was submitted before it was appended),
\* and the pipeline is ahead by exactly the items whose enqueue_track is
\* between its two halves.
C28_SubmittedBeforeAppended ==
    NoCleanupYet =>
        \A x \in Tracks :
            LET inPipeline == Count(CallOf(1).queue, x)
                inQueue == Count(QueueService_list(guild_queues, 1), x)
                between ==
                    Cardinality({p \in PlayIds : play[p].pc = "append" /\ play[p].coll[1] = x})
                    + Cardinality({t \in PlayIds : /\ task[t].pc = "append"
                                                   /\ task[t].tracks[task[t].i] = x})
            IN  /\ inQueue <= inPipeline
                /\ inPipeline = inQueue + between

C28_Witness ==
    /\ NoCleanupYet
    /\ task[1].pc = "append"
    /\ task[1].i = 3
    /\ \E p \in PlayIds : play[p].pc = "append" /\ play[p].coll = <<"D">>
    /\ Count(CallOf(1).queue, "D") = 2
    /\ Count(QueueService_list(guild_queues, 1), "D") = 1
    /\ Count(CallOf(1).queue, "C") = 1
    /\ Count(QueueService_list(guild_queues, 1), "C") = 0

\* C29: the flag list of a guild holds flags of bulk tasks in flight only: no
\* task that has returned (complete or cancelled) has its flag in the list.
C29_OnlyFlagsOfTasksInFlight ==
    \A g \in Guilds : \A t \in FlagsOf(g) : task[t].pc \in {"wait", "check", "submit", "append"}

\* C30: a bulk task that comes to the head of an item while the guild's
\* connection is gone (left or dropped) aborts: it does not go on to submit
\* the item.
C30_AbortsWhenConnectionGone ==
    [][\A t \in PlayIds :
          (/\ task[t].pc = "check"
           /\ task[t].i <= Len(task[t].tracks)
           /\ ~Connected(task[t].guild)
           /\ task'[t] # task[t])
          => task'[t].pc = "done"]_vars

\* C31: a single-track /play never waits for the bulk mutex: whoever holds
\* it, the command at the first half of enqueue_track can submit and the
\* command at the second half can append.
C31_SingleNeverWaitsForBulkMutex ==
    \A p \in PlayIds :
        /\ play[p].pc = "submit" => ENABLED PlaySubmit(p)
        /\ play[p].pc = "append" => ENABLED PlayAppend(p)

\* The single track D went in behind A while task 1 holds the mutex and is
\* at its second item
C31_Witness ==
    /\ NoCleanupYet
    /\ task[1].pc = "submit"
    /\ task[1].i = 2
    /\ enqueue_locks[1] = <<1>>
    /\ \E p \in PlayIds : play[p].kind = "single" /\ play[p].pc = "done"
    /\ QueueService_list(guild_queues, 1) = <<"A", "D">>
    /\ CallOf(1).queue = <<"A", "D">>

\* ------------------ /skip (commands/skip.rs) and the skip button
\* ------------------ (commands/now_playing.rs)
\* queue.skip() on the Call: the track at the head stops, the next one plays
PipelineSkipped(g) == [calls EXCEPT ![g].queue = Tail(@)]
Rejected(op, g, why) == [op |-> op, guild |-> g, ret |-> why]

\* skip: the pipeline is tested first; QueueService::skip runs after
\* queue.skip() only
skip(g) ==
    /\ IF g \in DOMAIN calls
       THEN IF calls[g].queue = <<>>
            THEN /\ lastOp' = Rejected("skip_command", g, "EmptyQueue")
                 /\ UNCHANGED <<calls, guild_queues>>
            ELSE /\ calls' = PipelineSkipped(g)
                 /\ guild_queues' = QueueService_skip(guild_queues, g)
                 /\ lastOp' = [op |-> "skip_command", guild |-> g, ret |-> "Skipped"]
       ELSE /\ lastOp' = Rejected("skip_command", g, "EmptyQueue")
            /\ UNCHANGED <<calls, guild_queues>>
    /\ UNCHANGED <<notif, lockers, guards, pushed, taken, registry, cancel_flag, members, procs,
                   joinCalls, cancelLog>>

\* handle_skip: QueueService::skip runs before the pipeline is tested
handle_skip(g) ==
    /\ IF g \in DOMAIN calls
       THEN /\ guild_queues' = QueueService_skip(guild_queues, g)
            /\ IF calls[g].queue = <<>>
               THEN /\ lastOp' = Rejected("skip_button", g, "Queue is empty.")
                    /\ UNCHANGED calls
               ELSE /\ calls' = PipelineSkipped(g)
                    /\ lastOp' = [op |-> "skip_button", guild |-> g, ret |-> "Skipped"]
       ELSE /\ lastOp' = Rejected("skip_button", g, "Not currently playing.")
            /\ UNCHANGED <<calls, guild_queues>>
    /\ UNCHANGED <<notif, lockers, guards, pushed, taken, registry, cancel_flag, members, procs,
                   joinCalls, cancelLog>>

\* Guild 1 in a running session with two single-track /play commands; the
\* queue operations, the end of a track and the two skip requests
SkipInit ==
    /\ SessionUp
    /\ guild_queues = EmptyMap
    /\ lastOp = NoOp
    /\ pushed = [g \in Guilds |-> <<>>]
    /\ taken = [g \in Guilds |-> 0]
    /\ enqueue_cancels = EmptyMap
    /\ enqueue_locks = EmptyMap
    /\ join_locks = EmptyMap
    /\ now_playing_messages = EmptyMap
    /\ cancel_flag = [t \in PlayIds |-> FALSE]
    /\ members = [g \in Guilds |-> [cached |-> TRUE, n |-> 2]]
    /\ task = [t \in PlayIds |-> TaskOff]
    /\ stop = [s \in StopIds |-> StopOff]
    /\ disc = [d \in DiscIds |-> DiscIdle]
    /\ cancelLog = [t \in PlayIds |-> <<>>]
    /\ guards = {}
    /\ lockers = NoLockers
    /\ notif = NoNotif
    /\ play = [p \in PlayIds |-> IF p = 1 THEN SinglePlay("A")
                                 ELSE IF p = 2 THEN SinglePlay("B")
                                 ELSE PlayOff]

SkipNext ==
    \/ \E p \in PlayIds : PlaySetup(p) \/ PlaySubmit(p) \/ PlayAppend(p)
    \/ QAdvance
    \/ \E g \in Guilds : TrackEnds(g)
    \/ \E g \in Guilds : skip(g)
    \/ \E g \in Guilds : handle_skip(g)

SpecSkip == SkipInit /\ [][SkipNext]_vars

Reg(name) == <<name, 0>>
CallMutex(g) == <<"call", g>>
JoinMutex(g) == <<"join", g>>
BulkMutex(g) == <<"bulk", g>>

\* touch: a critical section that awaits no other lock (take, use, drop);
\* acquire / release: a guard that is alive while other locks are awaited
Touch(lock, mode) == [op |-> "touch", lock |-> lock, mode |-> mode]
Acquire(lock, mode) == [op |-> "acquire", lock |-> lock, mode |-> mode]
Release(lock) == [op |-> "release", lock |-> lock, mode |-> "m"]

\* cleanup_guild: four guards one after the other
CleanupLocks ==
    <<Touch(Reg("enqueue_cancels"), "w"), Touch(Reg("guild_queues"), "w"),
      Touch(Reg("inactivity_handles"), "w"), Touch(Reg("now_playing_messages"), "w")>>

\* setup_fresh_join: the handle map's write guard is alive while the Call
\* mutex is taken twice
SetupLocks(g) ==
    <<Acquire(Reg("inactivity_handles"), "w"), Touch(CallMutex(g), "m"),
      Touch(CallMutex(g), "m"), Release(Reg("inactivity_handles"))>>

\* enqueue_track: the Call mutex, then the guild queues
EnqueueLocks(g) == <<Touch(CallMutex(g), "m"), Touch(Reg("guild_queues"), "w")>>

\* ensure_voice_connection, slow path; manager.leave and manager.join lock
\* the Call themselves
EnsureLocks(g) ==
    <<Touch(Reg("inactivity_handles"), "r"), Touch(CallMutex(g), "m"),
      Touch(Reg("join_locks"), "w"), Acquire(JoinMutex(g), "m"),
      Touch(Reg("inactivity_handles"), "r"), Touch(CallMutex(g), "m"),
      Release(JoinMutex(g))>>

KindOrder == <<"play_single", "play_bulk", "bulk_task", "stop", "monitor", "disconnect",
               "notifier", "skip", "skip_button", "pause", "repeat", "seek">>
LockerKinds == Range(KindOrder)
Rank(l) == 2 * (CHOOSE i \in 1..Len(KindOrder) : KindOrder[i] = l.kind) + l.guild

LockProgram_nested_mut(kind, g) ==
    CASE kind = "play_single" -> EnsureLocks(g) \o SetupLocks(g) \o EnqueueLocks(g)
      [] kind = "play_bulk" ->
            <<Touch(Reg("inactivity_handles"), "r")>> \o SetupLocks(g)
            \o <<Touch(Reg("enqueue_locks"), "w"), Touch(Reg("enqueue_cancels"), "w")>>
      [] kind = "bulk_task" ->
            <<Acquire(BulkMutex(g), "m")>> \o EnqueueLocks(g) \o <<Release(BulkMutex(g))>>
      [] kind = "stop" ->
            CleanupLocks \o <<Touch(CallMutex(g), "m"), Touch(CallMutex(g), "m")>>
      [] kind = "monitor" ->
            <<Touch(CallMutex(g), "m"), Acquire(CallMutex(g), "m")>>
            \o CleanupLocks \o <<Release(CallMutex(g))>>
      [] kind = "disconnect" -> CleanupLocks
      [] kind = "notifier" ->
            <<Touch(Reg("now_playing_messages"), "w"), Touch(Reg("now_playing_messages"), "w")>>
      [] kind = "skip" -> <<Touch(CallMutex(g), "m"), Touch(Reg("guild_queues"), "w")>>
      [] kind = "skip_button" -> <<Touch(Reg("guild_queues"), "w"), Touch(CallMutex(g), "m")>>
      [] kind = "pause" ->
            <<Acquire(CallMutex(g), "m"), Touch(Reg("repeat_states"), "r"),
              Release(CallMutex(g))>>
      [] kind = "repeat" -> <<Touch(Reg("repeat_states"), "w"), Touch(CallMutex(g), "m")>>
      [] kind = "seek" -> <<Touch(CallMutex(g), "m")>>
      [] OTHER -> <<>>

\* The lock operations of each handler, in the order of its code
LockProgram(kind, g) ==
    CASE kind = "play_single" -> EnsureLocks(g) \o SetupLocks(g) \o EnqueueLocks(g)
      [] kind = "play_bulk" ->
            <<Touch(Reg("inactivity_handles"), "r")>> \o SetupLocks(g)
            \o <<Touch(Reg("enqueue_locks"), "w"), Touch(Reg("enqueue_cancels"), "w")>>
      [] kind = "bulk_task" ->
            <<Acquire(BulkMutex(g), "m")>> \o EnqueueLocks(g) \o <<Release(BulkMutex(g))>>
      [] kind = "stop" ->
            CleanupLocks \o <<Touch(CallMutex(g), "m"), Touch(CallMutex(g), "m")>>
      [] kind = "monitor" ->
            <<Touch(CallMutex(g), "m"), Touch(CallMutex(g), "m"), Touch(CallMutex(g), "m")>>
            \o CleanupLocks
      [] kind = "disconnect" -> CleanupLocks
      [] kind = "notifier" ->
            <<Touch(Reg("now_playing_messages"), "w"), Touch(Reg("now_playing_messages"), "w")>>
      [] kind = "skip" -> <<Touch(CallMutex(g), "m"), Touch(Reg("guild_queues"), "w")>>
      [] kind = "skip_button" -> <<Touch(Reg("guild_queues"), "w"), Touch(CallMutex(g), "m")>>
      [] kind = "pause" ->
            <<Acquire(CallMutex(g), "m"), Touch(Reg("repeat_states"), "r"),
              Release(CallMutex(g))>>
      [] kind = "repeat" -> <<Touch(Reg("repeat_states"), "w"), Touch(CallMutex(g), "m")>>
      [] kind = "seek" -> <<Touch(CallMutex(g), "m")>>
      [] OTHER -> <<>>

Programs == [k \in LockerKinds, g \in Guilds |-> LockProgram(k, g)]
ProgramOf(h) == Programs[lockers[h].kind, lockers[h].guild]
Running(h) == lockers[h].pc <= Len(ProgramOf(h))
NextOp(h) == ProgramOf(h)[lockers[h].pc]

\* The guards handler h holds: acquired and not yet released
HeldBy(h) == lockers[h].held
Holders(lock) == {h \in LockerIds : \E e \in HeldBy(h) : e.lock = lock}
Writers(lock) == {h \in LockerIds : \E e \in HeldBy(h) : e.lock = lock /\ e.mode # "r"}
Wants(h) == Running(h) /\ NextOp(h).op \in {"touch", "acquire"}

\* A writer that waits for the lock; tokio's RwLock is fair, so a reader that
\* comes after it waits behind it
WriterWaits(h, lock) ==
    /\ Wants(h)
    /\ NextOp(h).lock = lock
    /\ NextOp(h).mode # "r"
    /\ Holders(lock) \ {h} # {}

\* Whom handler h waits for at its next operation
WaitsFor(h) ==
    IF ~Wants(h) THEN {}
    ELSE LET lock == NextOp(h).lock IN
         IF NextOp(h).mode = "r"
         THEN (Writers(lock) \cup {w \in LockerIds : WriterWaits(w, lock)}) \ {h}
         ELSE Holders(lock) \ {h}
Blocked(h) == WaitsFor(h) # {}

LockTouch(h) ==
    /\ Running(h)
    /\ NextOp(h).op = "touch"
    /\ ~Blocked(h)
    /\ lockers' = [lockers EXCEPT ![h].pc = @ + 1]
    /\ UNCHANGED <<notif, guild_queues, queueGhost, registry, cancel_flag, calls, members,
                   procs, joinCalls, cancelLog, guards>>

LockAcquire(h) ==
    /\ Running(h)
    /\ NextOp(h).op = "acquire"
    /\ ~Blocked(h)
    /\ lockers' = [lockers EXCEPT ![h].pc = @ + 1,
                                  ![h].held = @ \cup {[lock |-> NextOp(h).lock,
                                                       mode |-> NextOp(h).mode]}]
    /\ UNCHANGED <<notif, guild_queues, queueGhost, registry, cancel_flag, calls, members,
                   procs, joinCalls, cancelLog, guards>>

LockRelease(h) ==
    /\ Running(h)
    /\ NextOp(h).op = "release"
    /\ lockers' = [lockers EXCEPT ![h].pc = @ + 1,
                                  ![h].held = {e \in @ : e.lock # NextOp(h).lock}]
    /\ UNCHANGED <<notif, guild_queues, queueGhost, registry, cancel_flag, calls, members,
                   procs, joinCalls, cancelLog, guards>>

\* Any handlers of any guilds run together (the handlers are numbered in the
\* order of their kinds: which one is which does not matter)
LocksInit ==
    /\ guild_queues = EmptyMap
    /\ lastOp = NoOp
    /\ pushed = [g \in Guilds |-> <<>>]
    /\ taken = [g \in Guilds |-> 0]
    /\ inactivity_handles = EmptyMap
    /\ enqueue_cancels = EmptyMap
    /\ enqueue_locks = EmptyMap
    /\ join_locks = EmptyMap
    /\ now_playing_messages = EmptyMap
    /\ cancel_flag = [t \in PlayIds |-> FALSE]
    /\ calls = EmptyMap
    /\ members = [g \in Guilds |-> [cached |-> TRUE, n |-> 2]]
    /\ play = [p \in PlayIds |-> PlayOff]
    /\ task = [t \in PlayIds |-> TaskOff]
    /\ stop = [s \in StopIds |-> StopOff]
    /\ disc = [d \in DiscIds |-> DiscIdle]
    /\ mon = [m \in MonIds |-> MonUnborn]
    /\ joinCalls = [g \in Guilds |-> 0]
    /\ cancelLog = [t \in PlayIds |-> <<>>]
    /\ guards = {}
    /\ notif = NoNotif
    /\ lockers \in [LockerIds -> [kind : LockerKinds, guild : Guilds, pc : {1}, held : {{}}]]
    /\ \A h \in LockerIds : h + 1 \in LockerIds => Rank(lockers[h]) <= Rank(lockers[h + 1])

LocksNext == \E h \in LockerIds : LockTouch(h) \/ LockAcquire(h) \/ LockRelease(h)

SpecLocks == LocksInit /\ [][LocksNext]_vars

\* C32: no set of handlers is such that each of them waits for a lock that
\* another one of the set holds (or, for a reader, waits behind a writer of
\* the set).
C32_NoWaitCycle ==
    \A S \in SUBSET LockerIds :
        S # {} => \E h \in S : WaitsFor(h) \cap S = {}

\* setup_fresh_join holds the handle map and waits for the Call; the pause
\* handler holds the Call and reads the repeat states; a cleanup waits for
\* the handle map
C32_Witness ==
    \E a, b, c \in LockerIds :
        /\ lockers[a].kind = "play_single" /\ HeldBy(a) = {[lock |-> Reg("inactivity_handles"), mode |-> "w"]}
        /\ lockers[b].kind = "pause" /\ lockers[b].guild = lockers[a].guild
        /\ HeldBy(b) # {}
        /\ b \in WaitsFor(a)
        /\ lockers[c].kind = "disconnect"
        /\ a \in WaitsFor(c)

\* C33: when every /play of a guild has finished, with a reply or with an
\* error, a guild whose connection is up has a monitor handle registered.
C33_ConnectionHasMonitor ==
    \A g \in Guilds :
        (/\ Connected(g)
         /\ PlaysOf(g) # {}
         /\ \A p \in PlaysOf(g) : play[p].pc = "done")
        => g \in DOMAIN inactivity_handles

\* /play commands of guild g whose join has ended well and whose
\* setup_fresh_join has not yet registered a monitor handle
JoinedUnmarked(g) ==
    {q \in PlaysOf(g) : /\ play[q].pc \in {"have", "setup"}
                        /\ play[q].handler = <<CallOf(g).gen>>
                        /\ Connected(g)
                        /\ g \notin DOMAIN inactivity_handles}

\* C34: the defensive manager.leave of ensure_voice_connection is never
\* executed for a guild while a join of another command of the guild is in
\* flight, or has ended and is not yet marked by a monitor handle.
C34_LeaveSparesFreshJoin ==
    [][\A p \in PlayIds :
          (play[p].pc = "stale" /\ play'[p].pc = "lockmap")
          => /\ JoinsInFlight(play[p].guild) \ {p} = {}
             /\ JoinedUnmarked(play[p].guild) \ {p} = {}]_vars

\* No enqueue_track of guild 1 is between its two halves
NoEnqueueInProgress ==
    /\ \A p \in PlayIds : play[p].pc # "append"
    /\ \A t \in PlayIds : task[t].pc # "append"

\* C35: whenever no enqueue is in progress (and no cleanup has begun), the
\* guild queue lists the tracks in the order in which they were submitted to
\* the pipeline.
C35_SameOrderAsPipeline ==
    (NoCleanupYet /\ NoEnqueueInProgress)
    => QueueService_list(guild_queues, 1) = CallOf(1).queue

\* ------------------------- now-playing callbacks against a /stop's cleanup
\* The session of guild 1 with two /play commands of one track each about to
\* run setup_fresh_join; the tracks start playing one after the other and are
\* announced by NowPlayingNotifier, and a /stop arrives at any moment.
NowPlayingInit == SkipInit

NowPlayingNext ==
    \/ \E p \in PlayIds : PlaySetup(p) \/ PlaySubmit(p) \/ PlayAppend(p)
    \/ TrackEnds(1)
    \/ NowPlayingNotifier_act(1)
    \/ StopRequest({1}, {1})

SpecNowPlaying == NowPlayingInit /\ [][NowPlayingNext]_vars

\* The now-playing messages of guild g that exist: sent, and not handed to
\* delete_message. A message is handed to delete_message exactly when its
\* reference is taken out of the map, so it exists as long as it has not been
\* stored yet or is the one stored.
Live(g) ==
    {m \in notif[g].sent :
        \/ m \notin notif[g].inserted
        \/ (g \in DOMAIN now_playing_messages /\ now_playing_messages[g] = m)}
\* The message a callback has sent and is about to store
BeingStored(g) == IF notif[g].pc = "insert" THEN {notif[g].track} ELSE {}
CleanupsFinished(g) ==
    /\ \E s \in StopIds : stop[s].guild = g /\ stop[s].pc \notin CleanupPcs \cup {"off"}
    /\ \A s \in StopIds : stop[s].guild = g => stop[s].pc \notin CleanupPcs
    /\ \A d \in DiscIds : disc[d].guild = g => disc[d].pc \notin CleanupPcs

\* C36: under any interleaving of now-playing callbacks and cleanup_guild,
\* every now-playing message that exists (apart from the one a callback is
\* just storing) is the one referenced in the map; and once the cleanup and
\* every callback have finished, neither a reference to nor an existing
\* message from before the cleanup remains.
C36_MessagesFollowRegistry ==
    /\ \A m \in Live(1) \ BeingStored(1) :
          1 \in DOMAIN now_playing_messages /\ now_playing_messages[1] = m
    /\ (CleanupsFinished(1) /\ notif[1].pc = "idle")
       => /\ Live(1) \cap notif[1].old = {}
          /\ 1 \in DOMAIN now_playing_messages => now_playing_messages[1] \notin notif[1].old

\* A DisconnectCleanup run whose Call is connected again: the connection
\* whose drop raised the event is gone, a later /play has joined anew, and
\* its setup_fresh_join has registered the new session's handle.
LaterSession(d) ==
    /\ disc[d].pc \in CleanupPcs
    /\ Connected(disc[d].guild)
    /\ disc[d].guild \in DOMAIN inactivity_handles

\* C37: a cleanup run by the disconnect notification of an earlier session
\* never removes the monitor handle, sets the cancellation flags or clears
\* the queue of the session a later /play has created for the guild.
C37_StaleDisconnectSparesLaterSession ==
    [][\A d \in DiscIds :
          (LaterSession(d) /\ disc'[d] # disc[d])
          => /\ inactivity_handles' = inactivity_handles
             /\ cancel_flag' = cancel_flag
             /\ guild_queues' = guild_queues]_vars

\* The Notify of monitor m has been signalled (notify_one by a cleanup_guild
\* that removed it from the handle map), and the monitor has not returned yet
Signalled(m) == mon[m].permit
Registered(m) ==
    /\ mon[m].guild \in DOMAIN inactivity_handles
    /\ inactivity_handles[mon[m].guild] = m

\* C39: in every reachable state each alive monitor whose Notify has not been
\* signalled is the one registered in the handle map for its guild (so a
\* guild has at most one alive unsignalled monitor), and a monitor is spawned
\* only in a step of setup_fresh_join that finds no handle registered and
\* registers the new one, under the map's write lock.
C39_UnsignalledMonitorIsRegistered ==
    /\ [](\A g \in Guilds : \A m \in MonitorsAlive(g) : ~Signalled(m) => Registered(m))
    /\ [][\A m \in MonIds :
             (mon[m].pc = "unborn" /\ mon'[m].pc # "unborn")
             => /\ mon'[m].guild \notin DOMAIN inactivity_handles
                /\ inactivity_handles' = MapPut(inactivity_handles, mon'[m].guild, m)]_vars

\* Two monitors of guild 1 are alive: the one a cleanup has signalled and
\* deregistered, which has not returned yet, and the one registered since
C39_Witness ==
    \E m1, m2 \in MonitorsAlive(1) :
        /\ Signalled(m1) /\ ~Registered(m1)
        /\ ~Signalled(m2) /\ Registered(m2)

\* The bulk tasks that have been scheduled and have not returned
Scheduled == {t \in PlayIds : task[t].pc \in {"wait", "check", "submit", "append"}}

\* C40: every bulk task that has been scheduled and has not returned has its
\* flag in the guild's registered flag list or already set; and a task whose
\* flag a cleanup_guild has set appends nothing beyond the item it was
\* processing at that moment (nothing at all when it was between items or
\* still waiting for the mutex).
C40_ScheduledTaskIsCancellable ==
    \A t \in PlayIds :
        /\ t \in Scheduled => (t \in FlagsOf(task[t].guild) \/ cancel_flag[t])
        /\ (task[t].pc # "off" /\ cancelLog[t] # <<>>)
           => Appended(t) <= cancelLog[t][1].at + (IF cancelLog[t][1].mid THEN 1 ELSE 0)

\* Task 1 was in the middle of an item when the cleanup set its flag: it has
\* finished that item and returned as cancelled; task 2, scheduled before the
\* cleanup began, is still waiting with its flag set and no longer listed
C40_Witness ==
    /\ cancelLog[1] # <<>>
    /\ cancelLog[1][1].mid
    /\ task[1].outcome = "cancelled"
    /\ Appended(1) = cancelLog[1][1].at + 1
    /\ 2 \in Scheduled
    /\ cancel_flag[2]
    /\ 2 \notin FlagsOf(1)
====
